---- MODULE Spec2Model ----
(***************************************************************************)
(* Model of backend.py (class Backend): the notification handlers that     *)
(* keep node_added / node_removed / timestamps, the caller-side protocols  *)
(* start(), stop(), add_node() and remove_node(), the queries over the     *)
(* driver's nodes (get_nodes_list, the sensor and dimmer operations),      *)
(* hard_reset() and the location and name calls, and a second Backend      *)
(* instance sharing the module global `started`.                           *)
(*                                                                         *)
(* Threads: one event thread (the driver's dispatcher, running the         *)
(* handlers statement by statement) and the caller threads.  The driver    *)
(* (python-openzwave) is external: its answers are nondeterministic.       *)
(***************************************************************************)
EXTENDS Integers, Sequences, FiniteSets, TLC

\* ---------------------------------------------------------------- bounds
MaxNode == 2
MaxTime == 3
network_ready_timeout == 2
controller_operation_timeout == 1
MaxResets == 1
MaxMsg == 2
MaxRuns == 2

NodeIds == 1..MaxNode
Callers == {1, 2}

\* The caller followed where one caller is enough.
Solo == {1}

\* Backend.CONTROLLER_NODE_ID
CONTROLLER_NODE_ID == 1

\* Python's None, for a node reference and for a timestamp value.
None == 0 - 1

VARIABLES
    started,        \* module global `started`
    node_added,     \* self.node_added
    node_removed,   \* self.node_removed
    timestamps,     \* self.timestamps: label -> None | seconds
    connected,      \* node-level handlers connected to the dispatcher
    now,            \* int(time.time())
    net,            \* the driver's network: [state, cmdAt, readyAt, home]
    ev,             \* the event thread: [pc, node, err]
    pc,             \* per caller: position in the running operation
    temp,           \* per caller: local `temp` of add_node / remove_node
    t0,             \* per caller: local `start` (or the sleep's start)
    i,              \* per caller: loop index of start()
    tmo,            \* per caller: local `timeout` of start()
    trace,          \* per caller: driver commands issued by the current call
    result,         \* per caller: outcome of the last completed call (with the
                    \* value or flag given to hard_reset and the setters)
    heard,          \* per caller (history): a notification of the awaited kind was
                    \* delivered before the deadline, ahead of a loop-condition check
    known,          \* (history) nodes whose entry a NodeAdded has cleared, with no
                    \* NodeRemoved delivered since
    cancelFailed,   \* per caller (history): cancel_command answered False in this call
    nodes,          \* the driver's network.nodes, in insertion order
    arg,            \* per caller: the node id passed to the last query
    listing,        \* per caller: the dict last returned by get_nodes_list()
    location,       \* node.location of the driver's node objects, by node id
    name,           \* node.name of the driver's node objects, by node id
    peer,           \* a second Backend instance of the process and its caller:
                    \* [pc, net, result]
    sub             \* sub.py: the subscription and its messages, the runs of
                    \* sub() and the callbacks in progress

regVars == <<node_added, node_removed, timestamps, connected, known>>
callVars == <<pc, temp, t0, i, tmo, trace, result, heard, cancelFailed>>
qVars == <<arg, listing>>
xVars == <<location, name, peer, sub>>
vars == <<started, node_added, node_removed, timestamps, connected, now, net, ev,
          pc, temp, t0, i, tmo, trace, result, heard, cancelFailed, nodes, arg, listing,
          known, location, name, peer, sub>>

\* ------------------------------------------------------- pure functions

\* Mutant of TstampLabel: the label is made from more than the node's id, so
\* two notifications for one node get two keys.
TstampLabel_Fresh(n) == <<"timestamp", n, now>>

\* _tstamp_label(node): "timestamp" + str(node.node_id)
TstampLabel(n) == <<"timestamp", n>>

\* dict[key] = value
DictSet(d, k, v) == [x \in (DOMAIN d) \cup {k} |-> IF x = k THEN v ELSE d[x]]

\* dict.pop(key, None)
DictPop(d, k) == [x \in (DOMAIN d) \ {k} |-> d[x]]

\* Backend._has_timestamp
HasTimestamp(ts, n) == TstampLabel(n) \in DOMAIN ts

\* Backend._get_node_timestamp
GetNodeTimestamp(ts, n) ==
    IF TstampLabel(n) \in DOMAIN ts THEN ts[TstampLabel(n)] ELSE None

\* Backend._set_node_timestamp
SetNodeTimestamp(ts, n, value) == DictSet(ts, TstampLabel(n), value)

\* Backend._del_node_timestamp
DelNodeTimestamp(ts, n) == DictPop(ts, TstampLabel(n))

\* ----------------------------------------------------- the driver's nodes
\* A node object of the driver: its id, node.is_ready and node.type.  The
\* type names stand for the strings the configured patterns re_sensor and
\* re_dimmer match or do not match.
Types == {"Sensor", "Dimmer", "Other"}
NodeObjects == [node_id : NodeIds, is_ready : BOOLEAN, type : Types]

\* Every content of network.nodes of a running network: node objects with
\* distinct ids, the controller's among them, in any insertion order.
NodeTables ==
    {tbl \in UNION {[1..k -> NodeObjects] : k \in 1..MaxNode} :
        /\ \A a, b \in 1..Len(tbl) : tbl[a].node_id = tbl[b].node_id => a = b
        /\ \E a \in 1..Len(tbl) : tbl[a].node_id = CONTROLLER_NODE_ID}

\* Backend._is_dimmer: re.search(self.re_dimmer, node.type, re.I)
IsDimmer(node) == node.type = "Dimmer"

\* Backend._is_sensor: re.search(self.re_sensor, node.type, re.I)
IsSensor(node) == node.type = "Sensor"

\* Backend._lookup_node: the first node of network.nodes with that id; the
\* answer is the node's position, 0 standing for None.
LookupNode(tbl, nid) ==
    LET hits == {k \in 1..Len(tbl) : tbl[k].node_id = nid}
    IN  IF hits = {} THEN 0 ELSE CHOOSE k \in hits : \A j \in hits : k <= j

\* Mutant of MyNodes: the nodes in the driver's own order.
MyNodes_Unsorted(tbl) == tbl

\* Backend._my_nodes: OrderedDict(sorted(self.network.nodes.items()))
MyNodes(tbl) == SortSeq(tbl, LAMBDA a, b : a.node_id < b.node_id)

\* result[key] = value on a dict that keeps insertion order
ListSet(l, k, v) ==
    IF \E j \in 1..Len(l) : l[j][1] = k
    THEN [j \in 1..Len(l) |-> IF l[j][1] = k THEN <<k, v>> ELSE l[j]]
    ELSE Append(l, <<k, v>>)

\* Mutant of NodesList: a node that is not ready but has a timestamp entry
\* is listed with its type.
NodesList_History(seq, acc) ==
    [j \in 1..Len(seq) |->
        <<seq[j].node_id,
          IF seq[j].is_ready \/ HasTimestamp(timestamps, seq[j].node_id)
          THEN seq[j].type ELSE "[not ready]">>]

\* The loop of get_nodes_list over self._my_nodes().values()
RECURSIVE NodesList(_, _)
NodesList(seq, acc) ==
    IF seq = << >>
    THEN acc
    ELSE NodesList(Tail(seq),
                   ListSet(acc, Head(seq).node_id,
                           IF Head(seq).is_ready THEN Head(seq).type ELSE "[not ready]"))

\* Mutant of LookupSensorNode: the classification is checked before the
\* readiness.
LookupSensorNode_ClassFirst(tbl, ts, nid) ==
    LET k == LookupNode(tbl, nid)
    IN  IF k = 0 THEN "No such node"
        ELSE IF ~IsSensor(tbl[k]) THEN "Not a sensor"
        ELSE IF ~(tbl[k].is_ready \/ HasTimestamp(ts, tbl[k].node_id)) THEN "Not ready"
        ELSE ""

\* Backend._lookup_sensor_node: the message of the RuntimeError it raises,
\* "" when it returns the node.
LookupSensorNode(tbl, ts, nid) ==
    LET k == LookupNode(tbl, nid)
    IN  IF k = 0 THEN "No such node"
        ELSE IF ~(tbl[k].is_ready \/ HasTimestamp(ts, tbl[k].node_id)) THEN "Not ready"
        ELSE IF ~IsSensor(tbl[k]) THEN "Not a sensor"
        ELSE ""

\* Backend._lookup_dimmer_node, likewise.
LookupDimmerNode(tbl, ts, nid) ==
    LET k == LookupNode(tbl, nid)
    IN  IF k = 0 THEN "No such node"
        ELSE IF ~(tbl[k].is_ready \/ HasTimestamp(ts, tbl[k].node_id)) THEN "Not ready"
        ELSE IF ~IsDimmer(tbl[k]) THEN "Not a dimmer"
        ELSE ""

\* The checks at the head of get_dimmer_level.
GetDimmerLevelCheck(tbl, ts, nid) ==
    LET k == LookupNode(tbl, nid)
    IN  IF k = 0 THEN "No such node"
        ELSE IF ~(tbl[k].is_ready \/ HasTimestamp(ts, tbl[k].node_id)) THEN "Not ready"
        ELSE IF ~IsDimmer(tbl[k]) THEN "Not a dimmer"
        ELSE ""

\* The checks at the head of set_dimmer_level: `if not (node.is_ready)`.
SetDimmerLevelCheck(tbl, ts, nid) ==
    LET k == LookupNode(tbl, nid)
    IN  IF k = 0 THEN "No such node"
        ELSE IF ~tbl[k].is_ready THEN "Not ready"
        ELSE IF ~IsDimmer(tbl[k]) THEN "Not a dimmer"
        ELSE ""

\* Two of the six get_sensor_* methods of Backend_with_sensors (the six
\* differ in the label they look up and in their message only), and the
\* message each method raises when node.get_values finds no value.
SensorOps == {"get_sensor_temperature", "get_sensor_motion"}

LabelNotFound(o) ==
    CASE o = "get_sensor_temperature" -> "Temperature: label not found. Is this a sensor?"
      [] o = "get_sensor_motion" -> "ultraviolet: label not found. Is this a sensor?"
      [] o = "get_dimmer_level" -> "Temperature: label not found. Is this a sensor?"
      [] o = "set_dimmer_level" -> "Temperature: label not found. Is this a sensor?"

\* `not self._network_started` in add_node / remove_node: the attribute is the
\* bound method Backend._network_started, and a bound method is truthy.
NetworkStartedAttr == TRUE

\* network.is_ready of the driver
IsReady == net.state # "stopped" /\ now >= net.readyAt

NetStopped == [state |-> "stopped", cmdAt |-> 0, readyAt |-> 0, home |-> 0]

\* --------------------------------------------------------------- results
NoResult == [op |-> "none", kind |-> "none", ok |-> FALSE, msg |-> "", node |-> None, tmo |-> FALSE]
Pending(o) == [op |-> o, kind |-> "pending", ok |-> FALSE, msg |-> "", node |-> None, tmo |-> FALSE]
Status(o, b, m, t) == [op |-> o, kind |-> "return", ok |-> b, msg |-> m, node |-> None, tmo |-> t]
Raised(o, m) == [op |-> o, kind |-> "raise", ok |-> FALSE, msg |-> m, node |-> None, tmo |-> FALSE]
Returned(o, n) == [op |-> o, kind |-> "return", ok |-> TRUE, msg |-> "node", node |-> n, tmo |-> FALSE]
ReturnedNone(o) == [op |-> o, kind |-> "return", ok |-> FALSE, msg |-> "None", node |-> None, tmo |-> FALSE]
ReturnedValue(o) == [op |-> o, kind |-> "return", ok |-> TRUE, msg |-> "value", node |-> None, tmo |-> FALSE]

EvIdle(e) == [pc |-> "idle", node |-> None, err |-> e]

\* The second instance before any call: its own network is stopped.
PeerIdle ==
    [pc |-> "idle", net |-> NetStopped, i |-> 0, tmo |-> FALSE, t0 |-> 0,
     trace |-> << >>, result |-> NoResult]

\* ------------------------------------------------------------- sub.py
Msgs == 1..MaxMsg

\* What parserf makes of message.data: whether the bytes decode, the first
\* of the parts that split(".") gives, and how many parts there are.  One
\* message per path of parserf; Store takes the path of Rad.
Contents ==
    {[text |-> TRUE, cmd |-> "Rad", parts |-> 3],
     [text |-> TRUE, cmd |-> "Rad", parts |-> 1],
     [text |-> TRUE, cmd |-> "Light", parts |-> 3],
     [text |-> TRUE, cmd |-> "Other", parts |-> 1],
     [text |-> FALSE, cmd |-> "Other", parts |-> 1]}

NoData == [text |-> FALSE, cmd |-> "none", parts |-> 0]
NoOutcome == [kind |-> "none", payload |-> ""]

\* No sub() running, nothing published.
SubIdle ==
    [open |-> FALSE, runs |-> 0,
     msg |-> [m \in Msgs |-> [data |-> NoData, state |-> "unpublished", cb |-> "none",
                              out |-> NoOutcome, deliveries |-> 0, parses |-> 0]]]

\* parserf(message, url): bytes.decode, the slice and split, then the branch
\* on splitted[0].  Rad and Store index splitted[1] and splitted[2] outside
\* any try and run os.system, whose exit status is dropped; Light indexes
\* splitted[2] and posts the request inside try/except.
Parserf(data, reached) ==
    IF ~data.text
    THEN [kind |-> "raise", payload |-> "UnicodeDecodeError"]
    ELSE IF data.cmd \in {"Rad", "Store"}
    THEN IF data.parts < 3
         THEN [kind |-> "raise", payload |-> "IndexError"]
         ELSE [kind |-> "return", payload |-> data.cmd]
    ELSE IF data.cmd = "Light"
    THEN IF data.parts < 3 \/ ~reached
         THEN [kind |-> "return",
               payload |-> "Light, Request never reached. Is the ipv4 set correctly ?"]
         ELSE [kind |-> "return", payload |-> "Light"]
    ELSE [kind |-> "return", payload |-> "EmptyPayload"]

Init ==
    /\ started = FALSE
    /\ node_added = None
    /\ node_removed = None
    /\ timestamps = [x \in {} |-> None]
    /\ connected = FALSE
    /\ now = 0
    /\ net = NetStopped
    /\ ev = EvIdle("ok")
    /\ pc = [c \in Callers |-> "idle"]
    /\ temp = [c \in Callers |-> None]
    /\ t0 = [c \in Callers |-> 0]
    /\ i = [c \in Callers |-> 0]
    /\ tmo = [c \in Callers |-> FALSE]
    /\ trace = [c \in Callers |-> << >>]
    /\ result = [c \in Callers |-> NoResult]
    /\ heard = [c \in Callers |-> FALSE]
    /\ cancelFailed = [c \in Callers |-> FALSE]
    /\ known = {}
    /\ nodes = << >>
    /\ arg = [c \in Callers |-> None]
    /\ listing = [c \in Callers |-> << >>]
    /\ location = [n \in NodeIds |-> ""]
    /\ name = [n \in NodeIds |-> ""]
    /\ peer = PeerIdle
    /\ sub = SubIdle

\* ------------------------------------------------------------ the clock
Tick ==
    /\ now < MaxTime
    /\ now' = now + 1
    /\ UNCHANGED <<started, regVars, nodes, net, ev, qVars, xVars, callVars>>

\* ------------------------------------------------------ the event thread
\* The driver dispatches a signal only while its network runs; the node-level
\* signals reach a handler only once _network_ready has connected them.
EvFree == ev.pc = "idle" /\ net.state # "stopped"

\* A caller is inside the wait of add_node (remove_node), about to evaluate
\* the loop condition, and its deadline has not elapsed.
AddWaiting(c) == pc[c] = "a_while" /\ now - t0[c] <= controller_operation_timeout
RemoveWaiting(c) == pc[c] = "r_while" /\ now - t0[c] <= controller_operation_timeout

\* Mutant of EvNetworkReset: the handler forgets the tracked nodes.
EvNetworkReset_Forget ==
    /\ EvFree
    /\ net.home < MaxResets
    /\ net' = [state |-> "starting", cmdAt |-> now, readyAt |-> now, home |-> net.home + 1]
    /\ nodes' = << >>
    /\ node_added' = None
    /\ node_removed' = None
    /\ ev' = EvIdle("ok")
    /\ UNCHANGED <<started, timestamps, connected, known, now, qVars, xVars, callVars>>

\* SIGNAL_NETWORK_RESETTED -> Backend._network_reset (logs only).  The driver
\* has dropped its nodes and taken a new home id, and it starts up again.
EvNetworkReset ==
    /\ EvFree
    /\ net.home < MaxResets
    /\ net' = [state |-> "starting", cmdAt |-> now, readyAt |-> now, home |-> net.home + 1]
    /\ nodes' = << >>
    /\ ev' = EvIdle("ok")
    /\ UNCHANGED <<started, regVars, now, qVars, xVars, callVars>>

\* Mutant of EvNetworkStarted: the node handlers are connected as soon as
\* the network has started.
EvNetworkStarted_Connect ==
    /\ EvFree
    /\ net.state = "starting"
    /\ net' = [net EXCEPT !.state = "started"]
    /\ connected' = TRUE
    /\ ev' = EvIdle("ok")
    /\ UNCHANGED <<started, node_added, node_removed, timestamps, known, now, nodes,
                   qVars, xVars, callVars>>

\* SIGNAL_NETWORK_STARTED -> Backend._network_started (logs only)
EvNetworkStarted ==
    /\ EvFree
    /\ net.state = "starting"
    /\ net' = [net EXCEPT !.state = "started"]
    /\ ev' = EvIdle("ok")
    /\ UNCHANGED <<started, regVars, now, nodes, qVars, xVars, callVars>>

\* SIGNAL_NETWORK_READY -> Backend._network_ready: connects the node handlers
EvNetworkReady ==
    /\ EvFree
    /\ net.state = "started"
    /\ IsReady
    /\ net' = [net EXCEPT !.state = "ready"]
    /\ connected' = TRUE
    /\ ev' = EvIdle("ok")
    /\ UNCHANGED <<started, node_added, node_removed, timestamps, known, now, nodes, qVars, xVars, callVars>>

\* SIGNAL_NODE_ADDED -> Backend._node_added, first statement: self.node_added = node
EvNodeAdded(n) ==
    /\ EvFree
    /\ connected
    /\ node_added' = n
    /\ ev' = [pc |-> "na_ts", node |-> n, err |-> "ok"]
    /\ heard' = [c \in Callers |-> heard[c] \/ AddWaiting(c)]
    /\ UNCHANGED <<started, node_removed, timestamps, connected, known, now, nodes, net,
                   pc, temp, t0, i, tmo, trace, result, qVars, xVars, cancelFailed>>

\* Mutant of EvNodeAddedTimestamp: an entry that exists keeps its value.
EvNodeAddedTimestamp_Keep ==
    /\ ev.pc = "na_ts"
    /\ timestamps' = IF HasTimestamp(timestamps, ev.node)
                     THEN timestamps
                     ELSE SetNodeTimestamp(timestamps, ev.node, None)
    /\ known' = known \cup {ev.node}
    /\ ev' = [ev EXCEPT !.pc = "na_log"]
    /\ UNCHANGED <<started, node_added, node_removed, connected, now, nodes, net, qVars, xVars, callVars>>

\* Backend._node_added, second statement: self._set_node_timestamp(node, None)
EvNodeAddedTimestamp ==
    /\ ev.pc = "na_ts"
    /\ timestamps' = SetNodeTimestamp(timestamps, ev.node, None)
    /\ known' = known \cup {ev.node}
    /\ ev' = [ev EXCEPT !.pc = "na_log"]
    /\ UNCHANGED <<started, node_added, node_removed, connected, now, nodes, net, qVars, xVars, callVars>>

\* Mutant of EvNodeRemoved: the handler writes both most-recent nodes.
EvNodeRemoved_Both(n) ==
    /\ EvFree
    /\ connected
    /\ node_removed' = n
    /\ node_added' = n
    /\ known' = known \ {n}
    /\ ev' = [pc |-> "nr_ts", node |-> n, err |-> "ok"]
    /\ heard' = [c \in Callers |-> heard[c] \/ RemoveWaiting(c)]
    /\ UNCHANGED <<started, timestamps, connected, now, nodes, net,
                   pc, temp, t0, i, tmo, trace, result, qVars, xVars, cancelFailed>>

\* SIGNAL_NODE_REMOVED -> Backend._node_removed, first statement: self.node_removed = node
EvNodeRemoved(n) ==
    /\ EvFree
    /\ connected
    /\ node_removed' = n
    /\ known' = known \ {n}
    /\ ev' = [pc |-> "nr_ts", node |-> n, err |-> "ok"]
    /\ heard' = [c \in Callers |-> heard[c] \/ RemoveWaiting(c)]
    /\ UNCHANGED <<started, node_added, timestamps, connected, now, nodes, net,
                   pc, temp, t0, i, tmo, trace, result, qVars, xVars, cancelFailed>>

\* Mutant of EvNodeRemovedTimestamp: the handler forgets the timestamp entry.
EvNodeRemovedTimestamp_Keep ==
    /\ ev.pc = "nr_ts"
    /\ ev' = [ev EXCEPT !.pc = "nr_log"]
    /\ UNCHANGED <<started, regVars, now, nodes, net, qVars, xVars, callVars>>

\* Mutant of EvNodeRemovedTimestamp: the pop has no default, and a missing
\* key raises KeyError out of the handler.
EvNodeRemovedTimestamp_Strict ==
    /\ ev.pc = "nr_ts"
    /\ timestamps' = DelNodeTimestamp(timestamps, ev.node)
    /\ ev' = IF HasTimestamp(timestamps, ev.node)
             THEN [ev EXCEPT !.pc = "nr_log"]
             ELSE EvIdle("KeyError")
    /\ UNCHANGED <<started, node_added, node_removed, connected, known, now, nodes, net, qVars, xVars, callVars>>

\* Backend._node_removed, second and third statements: timestamps.pop(label, None)
\* and self._del_node_timestamp(node), both on the event thread, the only
\* writer of timestamps.
EvNodeRemovedTimestamp ==
    /\ ev.pc = "nr_ts"
    /\ timestamps' = DelNodeTimestamp(DictPop(timestamps, TstampLabel(ev.node)), ev.node)
    /\ ev' = [ev EXCEPT !.pc = "nr_log"]
    /\ UNCHANGED <<started, node_added, node_removed, connected, known, now, nodes, net, qVars, xVars, callVars>>

\* Mutant of EvValueUpdate: the timestamp counts the seconds down.
EvValueUpdate_Backwards(n) ==
    /\ EvFree
    /\ connected
    /\ timestamps' = SetNodeTimestamp(timestamps, n, MaxTime - now)
    /\ ev' = [pc |-> "vu_log", node |-> n, err |-> "ok"]
    /\ UNCHANGED <<started, node_added, node_removed, connected, known, now, nodes, net, qVars, xVars, callVars>>

\* SIGNAL_VALUE -> Backend._value_update, first statement:
\* self._set_node_timestamp(node, int(time.time()))
EvValueUpdate(n) ==
    /\ EvFree
    /\ connected
    /\ timestamps' = SetNodeTimestamp(timestamps, n, now)
    /\ ev' = [pc |-> "vu_log", node |-> n, err |-> "ok"]
    /\ UNCHANGED <<started, node_added, node_removed, connected, known, now, nodes, net, qVars, xVars, callVars>>

\* Mutant of EvValueUpdateLog: the timestamp is written again by the logging
\* statement.
EvValueUpdateLog_Restamp ==
    /\ ev.pc = "vu_log"
    /\ timestamps' = SetNodeTimestamp(timestamps, ev.node, now)
    /\ ev' = EvIdle("AttributeError")
    /\ UNCHANGED <<started, node_added, node_removed, connected, known, now, nodes, net, qVars, xVars, callVars>>

\* Backend._value_update, second statement: the argument of logger.debug calls
\* self.get_node_timestamp, an attribute Backend does not define (only
\* _get_node_timestamp exists): AttributeError leaves the handler.
EvValueUpdateLog ==
    /\ ev.pc = "vu_log"
    /\ ev' = EvIdle("AttributeError")
    /\ UNCHANGED <<started, regVars, now, nodes, net, qVars, xVars, callVars>>

\* The last statement of _node_added: logger.info(...)
EvNodeAddedLog ==
    /\ ev.pc = "na_log"
    /\ ev' = EvIdle("ok")
    /\ UNCHANGED <<started, regVars, now, nodes, net, qVars, xVars, callVars>>

\* The last statement of _node_removed: logger.info(...)
EvNodeRemovedLog ==
    /\ ev.pc = "nr_log"
    /\ ev' = EvIdle("ok")
    /\ UNCHANGED <<started, regVars, now, nodes, net, qVars, xVars, callVars>>

NetEvent ==
    \/ EvNetworkStarted
    \/ EvNetworkReady

AddedEvent ==
    \/ \E n \in NodeIds : EvNodeAdded(n)
    \/ EvNodeAddedTimestamp
    \/ EvNodeAddedLog

RemovedEvent ==
    \/ \E n \in NodeIds : EvNodeRemoved(n)
    \/ EvNodeRemovedTimestamp
    \/ EvNodeRemovedLog

ValueEvent ==
    \/ \E n \in NodeIds : EvValueUpdate(n)
    \/ EvValueUpdateLog

\* ------------------------------------------------------------- start()
\* A call begins from "idle"; it resets the call's trace and marks its result
\* pending.  Locals are cleared when the call completes.
Finish(c, r) ==
    /\ pc' = [pc EXCEPT ![c] = "idle"]
    /\ result' = [result EXCEPT ![c] = r]
    /\ temp' = [temp EXCEPT ![c] = None]
    /\ t0' = [t0 EXCEPT ![c] = 0]
    /\ i' = [i EXCEPT ![c] = 0]
    /\ tmo' = [tmo EXCEPT ![c] = FALSE]

\* Mutant of StartCheck: start() without the `if started` guard.
StartCheck_NoGuard(c) ==
    /\ pc[c] = "idle"
    /\ trace' = [trace EXCEPT ![c] = << >>]
    /\ result' = [result EXCEPT ![c] = Pending("start")]
    /\ pc' = [pc EXCEPT ![c] = "s_cmd"]
    /\ heard' = [heard EXCEPT ![c] = FALSE]
    /\ cancelFailed' = [cancelFailed EXCEPT ![c] = FALSE]
    /\ UNCHANGED <<started, regVars, now, nodes, net, ev, qVars, xVars, temp, t0, i, tmo>>

\* start(): `if started: ... return (False, msg)`
StartCheck(c) ==
    /\ pc[c] = "idle"
    /\ trace' = [trace EXCEPT ![c] = << >>]
    /\ IF started
       THEN /\ result' = [result EXCEPT ![c] = Status("start", FALSE, "System already started. Skipping...", FALSE)]
            /\ UNCHANGED pc
       ELSE /\ result' = [result EXCEPT ![c] = Pending("start")]
            /\ pc' = [pc EXCEPT ![c] = "s_cmd"]
    /\ heard' = [heard EXCEPT ![c] = FALSE]
    /\ cancelFailed' = [cancelFailed EXCEPT ![c] = FALSE]
    /\ UNCHANGED <<started, regVars, now, nodes, net, ev, qVars, xVars, temp, t0, i, tmo>>

\* start(): self.network.start(); timeout = True; the loop starts at i = 0.
\* The driver becomes ready k seconds after the command.
StartCommand(c) ==
    /\ pc[c] = "s_cmd"
    /\ trace' = [trace EXCEPT ![c] = Append(@, "start")]
    /\ IF net.state = "stopped"
       THEN \E k \in 0..(network_ready_timeout + 1) :
                net' = [state |-> "starting", cmdAt |-> now, readyAt |-> now + k,
                        home |-> net.home]
       ELSE UNCHANGED net
    /\ i' = [i EXCEPT ![c] = 0]
    /\ tmo' = [tmo EXCEPT ![c] = TRUE]
    /\ pc' = [pc EXCEPT ![c] = "s_loop"]
    /\ UNCHANGED <<started, regVars, now, nodes, ev, qVars, xVars, temp, t0, result, heard, cancelFailed>>

\* start(): one turn of `for i in range(0, network_ready_timeout)`: the
\* readiness check, then break or time.sleep(1.0)
StartPoll(c) ==
    /\ pc[c] = "s_loop"
    /\ IF i[c] < network_ready_timeout
       THEN IF IsReady
            THEN /\ tmo' = [tmo EXCEPT ![c] = FALSE]
                 /\ pc' = [pc EXCEPT ![c] = "s_fin"]
                 /\ UNCHANGED t0
            ELSE /\ pc' = [pc EXCEPT ![c] = "s_sleep"]
                 /\ t0' = [t0 EXCEPT ![c] = now]
                 /\ UNCHANGED tmo
       ELSE /\ pc' = [pc EXCEPT ![c] = "s_fin"]
            /\ UNCHANGED <<t0, tmo>>
    /\ UNCHANGED <<started, regVars, now, nodes, net, ev, qVars, xVars, temp, i, trace, result, heard, cancelFailed>>

\* Mutant of StartSleep: the loop does not sleep between two checks.
StartSleep_NoWait(c) ==
    /\ pc[c] = "s_sleep"
    /\ i' = [i EXCEPT ![c] = @ + 1]
    /\ t0' = [t0 EXCEPT ![c] = 0]
    /\ pc' = [pc EXCEPT ![c] = "s_loop"]
    /\ UNCHANGED <<started, regVars, now, nodes, net, ev, qVars, xVars, temp, tmo, trace, result, heard, cancelFailed>>

\* start(): time.sleep(1.0) returns once a second has passed
StartSleep(c) ==
    /\ pc[c] = "s_sleep"
    /\ now >= t0[c] + 1
    /\ i' = [i EXCEPT ![c] = @ + 1]
    /\ t0' = [t0 EXCEPT ![c] = 0]
    /\ pc' = [pc EXCEPT ![c] = "s_loop"]
    /\ UNCHANGED <<started, regVars, now, nodes, net, ev, qVars, xVars, temp, tmo, trace, result, heard, cancelFailed>>

\* Mutant of StartFinish: a timed-out start() reports failure and leaves the
\* network marked as not started.
StartFinish_FailOnTimeout(c) ==
    /\ pc[c] = "s_fin"
    /\ started' = ~tmo[c]
    /\ Finish(c, Status("start", ~tmo[c], IF tmo[c] THEN "Timeout" ELSE "OK", tmo[c]))
    /\ UNCHANGED <<regVars, now, nodes, net, ev, qVars, xVars, trace, heard, cancelFailed>>

\* start(): the warning and info logs, started = True, return (True, 'OK')
StartFinish(c) ==
    /\ pc[c] = "s_fin"
    /\ started' = TRUE
    /\ Finish(c, Status("start", TRUE, "OK", tmo[c]))
    /\ UNCHANGED <<regVars, now, nodes, net, ev, qVars, xVars, trace, heard, cancelFailed>>

\* -------------------------------------------------------------- stop()
\* stop(): self.network.stop() in try/except: an exception returns (False, str(e))
StopCommand(c) ==
    /\ pc[c] = "idle"
    /\ trace' = [trace EXCEPT ![c] = <<"stop">>]
    /\ heard' = [heard EXCEPT ![c] = FALSE]
    /\ cancelFailed' = [cancelFailed EXCEPT ![c] = FALSE]
    /\ \E ok \in BOOLEAN :
        IF ok
        THEN /\ net' = NetStopped
             /\ pc' = [pc EXCEPT ![c] = "st_set"]
             /\ result' = [result EXCEPT ![c] = Pending("stop")]
        ELSE /\ result' = [result EXCEPT ![c] = Status("stop", FALSE, "error", FALSE)]
             /\ UNCHANGED <<net, pc>>
    /\ UNCHANGED <<started, regVars, now, nodes, ev, qVars, xVars, temp, t0, i, tmo>>

\* Mutant of StopFinish: a successful stop() leaves `started` as it was.
StopFinish_KeepStarted(c) ==
    /\ pc[c] = "st_set"
    /\ Finish(c, Status("stop", TRUE, "OK", FALSE))
    /\ UNCHANGED <<started, regVars, now, nodes, net, ev, qVars, xVars, trace, heard, cancelFailed>>

\* stop(): started = False; return (True, 'OK')
StopFinish(c) ==
    /\ pc[c] = "st_set"
    /\ started' = FALSE
    /\ Finish(c, Status("stop", TRUE, "OK", FALSE))
    /\ UNCHANGED <<regVars, now, nodes, net, ev, qVars, xVars, trace, heard, cancelFailed>>

\* ------------------------------------------------- the second instance
\* Another Backend object of the same process: its own self.network (the
\* network.is_ready of that network below), its own caller and locals, and
\* the one module global `started` that every instance reads and writes.
PeerIsReady == peer.net.state # "stopped" /\ now >= peer.net.readyAt

PeerRest == <<regVars, callVars, now, nodes, net, ev, qVars, location, name, sub>>

\* start() of the second instance: `if started: ... return (False, msg)`
PeerStartCheck ==
    /\ peer.pc = "idle"
    /\ IF started
       THEN peer' = [peer EXCEPT !.trace = << >>,
                                 !.result = Status("start", FALSE, "System already started. Skipping...", FALSE)]
       ELSE peer' = [peer EXCEPT !.trace = << >>, !.result = Pending("start"),
                                 !.pc = "s_cmd"]
    /\ UNCHANGED <<started, PeerRest>>

\* start() of the second instance: self.network.start(); timeout = True
PeerStartCommand ==
    /\ peer.pc = "s_cmd"
    /\ \E k \in 0..(network_ready_timeout + 1) :
        peer' = [peer EXCEPT !.trace = Append(@, "start"),
                             !.net = IF peer.net.state = "stopped"
                                     THEN [state |-> "starting", cmdAt |-> now,
                                           readyAt |-> now + k, home |-> 0]
                                     ELSE @,
                             !.i = 0, !.tmo = TRUE, !.pc = "s_loop"]
    /\ UNCHANGED <<started, PeerRest>>

\* start() of the second instance: one turn of the polling loop
PeerStartPoll ==
    /\ peer.pc = "s_loop"
    /\ IF peer.i < network_ready_timeout
       THEN IF PeerIsReady
            THEN peer' = [peer EXCEPT !.tmo = FALSE, !.pc = "s_fin"]
            ELSE peer' = [peer EXCEPT !.pc = "s_sleep", !.t0 = now]
       ELSE peer' = [peer EXCEPT !.pc = "s_fin"]
    /\ UNCHANGED <<started, PeerRest>>

\* start() of the second instance: time.sleep(1.0)
PeerStartSleep ==
    /\ peer.pc = "s_sleep"
    /\ now >= peer.t0 + 1
    /\ peer' = [peer EXCEPT !.i = @ + 1, !.t0 = 0, !.pc = "s_loop"]
    /\ UNCHANGED <<started, PeerRest>>

\* start() of the second instance: started = True; return (True, 'OK')
PeerStartFinish ==
    /\ peer.pc = "s_fin"
    /\ started' = TRUE
    /\ peer' = [peer EXCEPT !.result = Status("start", TRUE, "OK", peer.tmo),
                            !.pc = "idle", !.i = 0, !.tmo = FALSE, !.t0 = 0]
    /\ UNCHANGED PeerRest

\* stop() of the second instance: self.network.stop() in try/except
PeerStopCommand ==
    /\ peer.pc = "idle"
    /\ \E ok \in BOOLEAN :
        IF ok
        THEN peer' = [peer EXCEPT !.trace = <<"stop">>, !.net = NetStopped,
                                  !.pc = "st_set", !.result = Pending("stop")]
        ELSE peer' = [peer EXCEPT !.trace = <<"stop">>,
                                  !.result = Status("stop", FALSE, "error", FALSE)]
    /\ UNCHANGED <<started, PeerRest>>

\* stop() of the second instance: started = False; return (True, 'OK')
PeerStopFinish ==
    /\ peer.pc = "st_set"
    /\ started' = FALSE
    /\ peer' = [peer EXCEPT !.result = Status("stop", TRUE, "OK", FALSE), !.pc = "idle"]
    /\ UNCHANGED PeerRest

PeerStart ==
    \/ PeerStartCheck
    \/ PeerStartCommand
    \/ PeerStartPoll
    \/ PeerStartSleep
    \/ PeerStartFinish

PeerStop ==
    \/ PeerStopCommand
    \/ PeerStopFinish

\* ------------------------------------------------- sub.py: the callbacks
SubRest == <<started, regVars, callVars, now, nodes, net, ev, qVars, location, name, peer>>

\* A publisher puts message m on the topic.
Publish(m, d) ==
    /\ sub.msg[m].state = "unpublished"
    /\ sub' = [sub EXCEPT !.msg[m].data = d, !.msg[m].state = "pending"]
    /\ UNCHANGED SubRest

\* sub(): subscriber_client.subscribe(subscription_path, callback=callback)
SubSubscribe ==
    /\ ~sub.open
    /\ sub.runs < MaxRuns
    /\ sub' = [sub EXCEPT !.open = TRUE, !.runs = @ + 1]
    /\ UNCHANGED SubRest

\* The streaming pull hands message m to a callback; the message stays
\* leased to this subscriber until it is acknowledged or released.
SubDeliver(m) ==
    /\ sub.open
    /\ sub.msg[m].state = "pending"
    /\ sub.msg[m].cb = "none"
    /\ sub' = [sub EXCEPT !.msg[m].state = "leased", !.msg[m].cb = "ack",
                          !.msg[m].deliveries = @ + 1]
    /\ UNCHANGED SubRest

\* Mutant of SubAck: the callback parses first and acknowledges afterwards.
SubAck_Late(m) ==
    /\ sub.msg[m].cb = "ack"
    /\ sub' = [sub EXCEPT !.msg[m].cb = "parse"]
    /\ UNCHANGED SubRest

\* callback: message.ack()
SubAck(m) ==
    /\ sub.msg[m].cb = "ack"
    /\ sub' = [sub EXCEPT !.msg[m].state = "acked", !.msg[m].cb = "parse"]
    /\ UNCHANGED SubRest

\* callback: payload = parserf(message, url); print(...).  An exception of
\* parserf leaves the callback.
SubParse(m) ==
    /\ sub.msg[m].cb = "parse"
    /\ \E reached \in BOOLEAN :
        sub' = [sub EXCEPT !.msg[m].out = Parserf(sub.msg[m].data, reached),
                           !.msg[m].parses = @ + 1,
                           !.msg[m].cb = "none"]
    /\ UNCHANGED SubRest

\* sub(): result(timeout) ends with an exception, then cancel(), result()
\* and close().  The callbacks in S had not started: their messages, not
\* acknowledged, go back to the subscription and will be delivered again.
SubCancel ==
    /\ sub.open
    /\ \E S \in SUBSET {m \in Msgs : sub.msg[m].cb = "ack"} :
        sub' = [sub EXCEPT !.open = FALSE,
                           !.msg = [m \in Msgs |->
                                       IF m \in S
                                       THEN [sub.msg[m] EXCEPT !.state = "pending",
                                                               !.cb = "none"]
                                       ELSE sub.msg[m]]]
    /\ UNCHANGED SubRest

\* ---------------------------------------------------------- add_node()
\* Mutant of AddEnter: the sentinel is not taken from self.node_added.
AddEnter_NoSentinel(c) ==
    /\ pc[c] = "idle"
    /\ trace' = [trace EXCEPT ![c] = << >>]
    /\ heard' = [heard EXCEPT ![c] = FALSE]
    /\ cancelFailed' = [cancelFailed EXCEPT ![c] = FALSE]
    /\ result' = [result EXCEPT ![c] = Pending("add_node")]
    /\ temp' = [temp EXCEPT ![c] = None]
    /\ pc' = [pc EXCEPT ![c] = "a_cmd"]
    /\ UNCHANGED <<started, regVars, now, nodes, net, ev, qVars, xVars, t0, i, tmo>>

\* add_node(): `if not self._network_started: raise RuntimeError("Network is
\* down")`, then temp = self.node_added
AddEnter(c) ==
    /\ pc[c] = "idle"
    /\ trace' = [trace EXCEPT ![c] = << >>]
    /\ heard' = [heard EXCEPT ![c] = FALSE]
    /\ cancelFailed' = [cancelFailed EXCEPT ![c] = FALSE]
    /\ IF ~NetworkStartedAttr
       THEN /\ result' = [result EXCEPT ![c] = Raised("add_node", "Network is down")]
            /\ UNCHANGED <<pc, temp>>
       ELSE /\ result' = [result EXCEPT ![c] = Pending("add_node")]
            /\ temp' = [temp EXCEPT ![c] = node_added]
            /\ pc' = [pc EXCEPT ![c] = "a_cmd"]
    /\ UNCHANGED <<started, regVars, now, nodes, net, ev, qVars, xVars, t0, i, tmo>>

\* Mutant of AddCommand: the wait is entered without a command to the driver.
AddCommand_Silent(c) ==
    /\ pc[c] = "a_cmd"
    /\ t0' = [t0 EXCEPT ![c] = now]
    /\ pc' = [pc EXCEPT ![c] = "a_while"]
    /\ UNCHANGED <<started, regVars, now, nodes, net, ev, qVars, xVars, temp, i, tmo,
                   trace, result, heard, cancelFailed>>

\* Mutant of AddCommand: the sentinel is taken again once the command is out.
AddCommand_Recapture(c) ==
    /\ pc[c] = "a_cmd"
    /\ trace' = [trace EXCEPT ![c] = Append(@, "add_node")]
    /\ \E accepted \in BOOLEAN :
        IF accepted
        THEN /\ t0' = [t0 EXCEPT ![c] = now]
             /\ temp' = [temp EXCEPT ![c] = node_added]
             /\ pc' = [pc EXCEPT ![c] = "a_while"]
             /\ UNCHANGED <<i, tmo, result>>
        ELSE /\ Finish(c, ReturnedNone("add_node"))
    /\ UNCHANGED <<started, regVars, now, nodes, net, ev, qVars, xVars, heard, cancelFailed>>

\* add_node(): `if(self.network.controller.add_node()): start = time.time()`;
\* a rejected command falls off the end of the method, which returns None
AddCommand(c) ==
    /\ pc[c] = "a_cmd"
    /\ trace' = [trace EXCEPT ![c] = Append(@, "add_node")]
    /\ \E accepted \in BOOLEAN :
        IF accepted
        THEN /\ t0' = [t0 EXCEPT ![c] = now]
             /\ pc' = [pc EXCEPT ![c] = "a_while"]
             /\ UNCHANGED <<temp, i, tmo, result>>
        ELSE /\ Finish(c, ReturnedNone("add_node"))
    /\ UNCHANGED <<started, regVars, now, nodes, net, ev, qVars, xVars, heard, cancelFailed>>

\* add_node(): `while self.node_added==temp:`
AddWhile(c) ==
    /\ pc[c] = "a_while"
    /\ pc' = [pc EXCEPT ![c] = IF node_added = temp[c] THEN "a_time" ELSE "a_ret"]
    /\ UNCHANGED <<started, regVars, now, nodes, net, ev, qVars, xVars, temp, t0, i, tmo, trace, result, heard, cancelFailed>>

\* Mutant of AddTime: the deadline is never found elapsed.
AddTime_Never(c) ==
    /\ pc[c] = "a_time"
    /\ pc' = [pc EXCEPT ![c] = "a_while"]
    /\ UNCHANGED <<started, regVars, now, nodes, net, ev, qVars, xVars, temp, t0, i, tmo, trace, result, heard, cancelFailed>>

\* add_node(): `if (time.time()-start) > self.controller_operation_timeout:`
AddTime(c) ==
    /\ pc[c] = "a_time"
    /\ pc' = [pc EXCEPT ![c] = IF now - t0[c] > controller_operation_timeout
                               THEN "a_cancel" ELSE "a_while"]
    /\ UNCHANGED <<started, regVars, now, nodes, net, ev, qVars, xVars, temp, t0, i, tmo, trace, result, heard, cancelFailed>>

\* Mutant of AddCancel: the timeout path raises without cancelling.
AddCancel_Skip(c) ==
    /\ pc[c] = "a_cancel"
    /\ pc' = [pc EXCEPT ![c] = "a_raise"]
    /\ UNCHANGED <<started, regVars, now, nodes, net, ev, qVars, xVars, temp, t0, i, tmo, trace, result, heard, cancelFailed>>

\* add_node(): print('Timed out'); self.network.controller.cancel_command()
\* The driver answers True or False; the code drops the answer.
AddCancel(c) ==
    /\ pc[c] = "a_cancel"
    /\ trace' = [trace EXCEPT ![c] = Append(@, "cancel_command")]
    /\ \E ok \in BOOLEAN : cancelFailed' = [cancelFailed EXCEPT ![c] = ~ok]
    /\ pc' = [pc EXCEPT ![c] = "a_raise"]
    /\ UNCHANGED <<started, regVars, now, nodes, net, ev, qVars, xVars, temp, t0, i, tmo, result, heard>>

\* Mutant of AddRaise: a failed cancellation replaces the Timeout error.
AddRaise_Escalate(c) ==
    /\ pc[c] = "a_raise"
    /\ Finish(c, Raised("add_node", IF cancelFailed[c] THEN "Cancel failed" ELSE "Timeout"))
    /\ UNCHANGED <<started, regVars, now, nodes, net, ev, qVars, xVars, trace, heard, cancelFailed>>

\* add_node(): raise RuntimeError("Timeout")
AddRaise(c) ==
    /\ pc[c] = "a_raise"
    /\ Finish(c, Raised("add_node", "Timeout"))
    /\ UNCHANGED <<started, regVars, now, nodes, net, ev, qVars, xVars, trace, heard, cancelFailed>>

\* Mutant of AddReturn: the node returned is the sentinel.
AddReturn_Sentinel(c) ==
    /\ pc[c] = "a_ret"
    /\ Finish(c, Returned("add_node", temp[c]))
    /\ UNCHANGED <<started, regVars, now, nodes, net, ev, qVars, xVars, trace, heard, cancelFailed>>

\* add_node(): return json_prepare(self.node_added)
AddReturn(c) ==
    /\ pc[c] = "a_ret"
    /\ Finish(c, Returned("add_node", node_added))
    /\ UNCHANGED <<started, regVars, now, nodes, net, ev, qVars, xVars, trace, heard, cancelFailed>>

\* ------------------------------------------------------- remove_node()
\* remove_node(): the same check of self._network_started, then
\* temp = self.node_removed
RemoveEnter(c) ==
    /\ pc[c] = "idle"
    /\ trace' = [trace EXCEPT ![c] = << >>]
    /\ heard' = [heard EXCEPT ![c] = FALSE]
    /\ cancelFailed' = [cancelFailed EXCEPT ![c] = FALSE]
    /\ IF ~NetworkStartedAttr
       THEN /\ result' = [result EXCEPT ![c] = Raised("remove_node", "Network is down")]
            /\ UNCHANGED <<pc, temp>>
       ELSE /\ result' = [result EXCEPT ![c] = Pending("remove_node")]
            /\ temp' = [temp EXCEPT ![c] = node_removed]
            /\ pc' = [pc EXCEPT ![c] = "r_cmd"]
    /\ UNCHANGED <<started, regVars, now, nodes, net, ev, qVars, xVars, t0, i, tmo>>

\* remove_node(): `if(self.network.controller.remove_node()): start = time.time()`
RemoveCommand(c) ==
    /\ pc[c] = "r_cmd"
    /\ trace' = [trace EXCEPT ![c] = Append(@, "remove_node")]
    /\ \E accepted \in BOOLEAN :
        IF accepted
        THEN /\ t0' = [t0 EXCEPT ![c] = now]
             /\ pc' = [pc EXCEPT ![c] = "r_while"]
             /\ UNCHANGED <<temp, i, tmo, result>>
        ELSE /\ Finish(c, ReturnedNone("remove_node"))
    /\ UNCHANGED <<started, regVars, now, nodes, net, ev, qVars, xVars, heard, cancelFailed>>

\* remove_node(): `while self.node_removed==temp:`
RemoveWhile(c) ==
    /\ pc[c] = "r_while"
    /\ pc' = [pc EXCEPT ![c] = IF node_removed = temp[c] THEN "r_time" ELSE "r_ret"]
    /\ UNCHANGED <<started, regVars, now, nodes, net, ev, qVars, xVars, temp, t0, i, tmo, trace, result, heard, cancelFailed>>

\* remove_node(): `if (time.time()-start) > self.controller_operation_timeout:`
RemoveTime(c) ==
    /\ pc[c] = "r_time"
    /\ pc' = [pc EXCEPT ![c] = IF now - t0[c] > controller_operation_timeout
                               THEN "r_cancel" ELSE "r_while"]
    /\ UNCHANGED <<started, regVars, now, nodes, net, ev, qVars, xVars, temp, t0, i, tmo, trace, result, heard, cancelFailed>>

\* remove_node(): print('Timed out'); self.network.controller.cancel_command()
RemoveCancel(c) ==
    /\ pc[c] = "r_cancel"
    /\ trace' = [trace EXCEPT ![c] = Append(@, "cancel_command")]
    /\ \E ok \in BOOLEAN : cancelFailed' = [cancelFailed EXCEPT ![c] = ~ok]
    /\ pc' = [pc EXCEPT ![c] = "r_raise"]
    /\ UNCHANGED <<started, regVars, now, nodes, net, ev, qVars, xVars, temp, t0, i, tmo, result, heard>>

\* remove_node(): raise RuntimeError("Timeout")
RemoveRaise(c) ==
    /\ pc[c] = "r_raise"
    /\ Finish(c, Raised("remove_node", "Timeout"))
    /\ UNCHANGED <<started, regVars, now, nodes, net, ev, qVars, xVars, trace, heard, cancelFailed>>

\* remove_node(): return json_prepare(self.node_removed)
RemoveReturn(c) ==
    /\ pc[c] = "r_ret"
    /\ Finish(c, Returned("remove_node", node_removed))
    /\ UNCHANGED <<started, regVars, now, nodes, net, ev, qVars, xVars, trace, heard, cancelFailed>>

\* ------------------------------------------------------------ queries
\* The queries only read network.nodes and self.timestamps; each is one step
\* of its caller.  A query leaves nothing behind but its answer, so a
\* caller's run is followed up to the answer of its first query ("done").
Query(c, o, n, r) ==
    /\ pc[c] = "idle"
    /\ pc' = [pc EXCEPT ![c] = "done"]
    /\ arg' = [arg EXCEPT ![c] = n]
    /\ result' = [result EXCEPT ![c] = r]
    /\ heard' = [heard EXCEPT ![c] = FALSE]
    /\ cancelFailed' = [cancelFailed EXCEPT ![c] = FALSE]
    /\ UNCHANGED <<started, regVars, now, nodes, net, ev, temp, t0, i, tmo, xVars>>

\* get_nodes_list()
GetNodesList(c) ==
    /\ Query(c, "get_nodes_list", None, ReturnedValue("get_nodes_list"))
    /\ listing' = [listing EXCEPT ![c] = NodesList(MyNodes(nodes), << >>)]
    /\ trace' = [trace EXCEPT ![c] = << >>]

\* get_sensor_temperature(n), get_sensor_motion(n): _lookup_sensor_node, then
\* node.get_values under the method's label
GetSensor(c, o, n) ==
    /\ LET e == LookupSensorNode(nodes, timestamps, n)
       IN  IF e # ""
           THEN Query(c, o, n, Raised(o, e))
           ELSE \E found \in BOOLEAN :
                    Query(c, o, n, IF found THEN Returned(o, n) ELSE Raised(o, LabelNotFound(o)))
    /\ trace' = [trace EXCEPT ![c] = << >>]
    /\ UNCHANGED listing

\* get_dimmer_level(n)
GetDimmerLevel(c, n) ==
    /\ LET e == GetDimmerLevelCheck(nodes, timestamps, n)
       IN  IF e # ""
           THEN Query(c, "get_dimmer_level", n, Raised("get_dimmer_level", e))
           ELSE \E found \in BOOLEAN :
                    Query(c, "get_dimmer_level", n,
                          IF found THEN Returned("get_dimmer_level", n)
                          ELSE Raised("get_dimmer_level", LabelNotFound("get_dimmer_level")))
    /\ trace' = [trace EXCEPT ![c] = << >>]
    /\ UNCHANGED listing

\* set_dimmer_level(n, value): the checks, node.get_values, node.set_dimmer
SetDimmerLevel(c, n) ==
    /\ LET e == SetDimmerLevelCheck(nodes, timestamps, n)
       IN  IF e # ""
           THEN /\ Query(c, "set_dimmer_level", n, Raised("set_dimmer_level", e))
                /\ trace' = [trace EXCEPT ![c] = << >>]
           ELSE \E found \in BOOLEAN :
                    IF found
                    THEN /\ Query(c, "set_dimmer_level", n, Returned("set_dimmer_level", n))
                         /\ trace' = [trace EXCEPT ![c] = <<"set_dimmer">>]
                    ELSE /\ Query(c, "set_dimmer_level", n,
                                  Raised("set_dimmer_level", LabelNotFound("set_dimmer_level")))
                         /\ trace' = [trace EXCEPT ![c] = << >>]
    /\ UNCHANGED listing

\* ------------------------------------------- hard_reset, location, name
\* The strings a caller passes as a location or a name.
Strings == {"", "kitchen", "lamp"}

\* A returned string, with the value the call was given (None for a getter).
ReturnedStr(o, v, given) ==
    [op |-> o, kind |-> "return", ok |-> TRUE, msg |-> "value", node |-> None,
     tmo |-> FALSE, value |-> v, given |-> given]

\* The outcome of hard_reset(force), with the flag the call was given.
ResetOutcome(r, force) ==
    [op |-> r.op, kind |-> r.kind, ok |-> r.ok, msg |-> r.msg, node |-> r.node,
     tmo |-> r.tmo, force |-> force]

\* A call that runs to its end in one step on the caller's thread.
Call(c, n, r) ==
    /\ pc[c] = "idle"
    /\ arg' = [arg EXCEPT ![c] = n]
    /\ result' = [result EXCEPT ![c] = r]
    /\ heard' = [heard EXCEPT ![c] = FALSE]
    /\ cancelFailed' = [cancelFailed EXCEPT ![c] = FALSE]
    /\ UNCHANGED <<started, regVars, now, net, ev, pc, temp, t0, i, tmo, listing, peer, sub>>

\* self.network.nodes_count
NodesCount == Len(nodes)

\* What the driver keeps of its node table after a hard reset: the controller.
AfterHardReset(tbl) == SelectSeq(tbl, LAMBDA x : x.node_id = CONTROLLER_NODE_ID)

\* hard_reset(force): `if self.network.nodes_count == 1: ... elif force: ...
\* else: raise RuntimeError(...)`.  The node objects the driver drops take
\* their location and name with them.
HardReset(c, force) ==
    IF NodesCount = 1 \/ force
    THEN /\ Call(c, None, ResetOutcome(Status("hard_reset", TRUE, "OK", FALSE), force))
         /\ trace' = [trace EXCEPT ![c] = <<"hard_reset">>]
         /\ nodes' = AfterHardReset(nodes)
         /\ location' = [n \in NodeIds |-> IF LookupNode(nodes', n) = 0 THEN "" ELSE location[n]]
         /\ name' = [n \in NodeIds |-> IF LookupNode(nodes', n) = 0 THEN "" ELSE name[n]]
    ELSE /\ Call(c, None, ResetOutcome(Raised("hard_reset", "Cannot hard reset while network has included nodes."), force))
         /\ trace' = [trace EXCEPT ![c] = << >>]
         /\ UNCHANGED <<nodes, location, name>>

\* Mutant of SetNodeLocation: the call returns the value it has just stored.
SetNodeLocation_ReturnNew(c, n, value) ==
    /\ trace' = [trace EXCEPT ![c] = << >>]
    /\ IF LookupNode(nodes, n) = 0
       THEN /\ Call(c, n, Raised("set_node_location", "No node with this ID"))
            /\ UNCHANGED <<nodes, location, name>>
       ELSE /\ Call(c, n, ReturnedStr("set_node_location", value, value))
            /\ location' = [location EXCEPT ![n] = value]
            /\ UNCHANGED <<nodes, name>>

\* set_node_location(n, value): temp = node.location; node.location = value;
\* return temp
SetNodeLocation(c, n, value) ==
    /\ trace' = [trace EXCEPT ![c] = << >>]
    /\ IF LookupNode(nodes, n) = 0
       THEN /\ Call(c, n, Raised("set_node_location", "No node with this ID"))
            /\ UNCHANGED <<nodes, location, name>>
       ELSE /\ Call(c, n, ReturnedStr("set_node_location", location[n], value))
            /\ location' = [location EXCEPT ![n] = value]
            /\ UNCHANGED <<nodes, name>>

\* Mutant of SetNodeName: an identity that is not in the network gets a name.
SetNodeName_Create(c, n, value) ==
    /\ trace' = [trace EXCEPT ![c] = << >>]
    /\ Call(c, n, IF LookupNode(nodes, n) = 0
                  THEN Raised("set_node_name", "No node with this ID")
                  ELSE ReturnedStr("set_node_name", name[n], value))
    /\ name' = [name EXCEPT ![n] = value]
    /\ UNCHANGED <<nodes, location>>

\* set_node_name(n, value): temp = node.name; node.name = value; return temp
SetNodeName(c, n, value) ==
    /\ trace' = [trace EXCEPT ![c] = << >>]
    /\ IF LookupNode(nodes, n) = 0
       THEN /\ Call(c, n, Raised("set_node_name", "No node with this ID"))
            /\ UNCHANGED <<nodes, location, name>>
       ELSE /\ Call(c, n, ReturnedStr("set_node_name", name[n], value))
            /\ name' = [name EXCEPT ![n] = value]
            /\ UNCHANGED <<nodes, location>>

\* get_node_location(n)
GetNodeLocation(c, n) ==
    /\ trace' = [trace EXCEPT ![c] = << >>]
    /\ Call(c, n, IF LookupNode(nodes, n) = 0
                  THEN Raised("get_node_location", "No such node")
                  ELSE ReturnedStr("get_node_location", location[n], None))
    /\ UNCHANGED <<nodes, location, name>>

\* get_node_name(n)
GetNodeName(c, n) ==
    /\ trace' = [trace EXCEPT ![c] = << >>]
    /\ Call(c, n, IF LookupNode(nodes, n) = 0
                  THEN Raised("get_node_name", "No such node")
                  ELSE ReturnedStr("get_node_name", name[n], None))
    /\ UNCHANGED <<nodes, location, name>>

Start(c) ==
    \/ StartCheck(c)
    \/ StartCommand(c)
    \/ StartPoll(c)
    \/ StartSleep(c)
    \/ StartFinish(c)

Stop(c) ==
    \/ StopCommand(c)
    \/ StopFinish(c)

AddNode(c) ==
    \/ AddEnter(c)
    \/ AddCommand(c)
    \/ AddWhile(c)
    \/ AddTime(c)
    \/ AddCancel(c)
    \/ AddRaise(c)
    \/ AddReturn(c)

RemoveNode(c) ==
    \/ RemoveEnter(c)
    \/ RemoveCommand(c)
    \/ RemoveWhile(c)
    \/ RemoveTime(c)
    \/ RemoveCancel(c)
    \/ RemoveRaise(c)
    \/ RemoveReturn(c)

Next ==
    \/ Tick
    \/ NetEvent
    \/ EvNetworkReset
    \/ AddedEvent
    \/ RemovedEvent
    \/ ValueEvent
    \/ \E c \in Solo : Start(c) \/ Stop(c) \/ AddNode(c) \/ RemoveNode(c)

\* The lifecycle, the handlers and the waits together.
Spec == Init /\ [][Next]_vars

\* start() and stop() against the driver's start-up.
NextLifecycle ==
    \/ Tick
    \/ NetEvent
    \/ \E c \in Solo : Start(c) \/ Stop(c)

SpecLifecycle == Init /\ [][NextLifecycle]_vars

\* Two Backend instances of one process, each started and stopped by its
\* own caller.
NextInstances ==
    \/ Tick
    \/ \E c \in Solo : Start(c) \/ Stop(c)
    \/ PeerStart
    \/ PeerStop

SpecInstances == Init /\ [][NextInstances]_vars

\* start() called from two threads on one backend.
NextStarts ==
    \/ Tick
    \/ NetEvent
    \/ \E c \in Callers : Start(c)

SpecStarts == Init /\ [][NextStarts]_vars

\* A backend that the first caller's start() has brought up within second 0,
\* the driver holding node table tbl: NetworkReady has connected the node
\* handlers, no node notification has been delivered yet.
UpWith(tbl) ==
    /\ started = TRUE
    /\ connected = TRUE
    /\ now = 0
    /\ net = [state |-> "ready", cmdAt |-> 0, readyAt |-> 0, home |-> 0]
    /\ node_added = None
    /\ node_removed = None
    /\ timestamps = << >>
    /\ known = {}
    /\ ev = EvIdle("ok")
    /\ nodes = tbl
    /\ pc = [c \in Callers |-> "idle"]
    /\ temp = [c \in Callers |-> None]
    /\ t0 = [c \in Callers |-> 0]
    /\ i = [c \in Callers |-> 0]
    /\ tmo = [c \in Callers |-> FALSE]
    /\ trace = [c \in Callers |-> IF c \in Solo THEN <<"start">> ELSE << >>]
    /\ result = [c \in Callers |-> IF c \in Solo THEN Status("start", TRUE, "OK", FALSE)
                                    ELSE NoResult]
    /\ heard = [c \in Callers |-> FALSE]
    /\ cancelFailed = [c \in Callers |-> FALSE]
    /\ arg = [c \in Callers |-> None]
    /\ listing = [c \in Callers |-> << >>]
    /\ location = [n \in NodeIds |-> ""]
    /\ name = [n \in NodeIds |-> ""]
    /\ peer = PeerIdle
    /\ sub = SubIdle

\* The node table of a network that holds its controller only.
ControllerOnly == <<[node_id |-> CONTROLLER_NODE_ID, is_ready |-> TRUE, type |-> "Other"]>>

UpInit == UpWith(ControllerOnly)

\* add_node() and remove_node() called from two threads on one started
\* backend, while no node joins or leaves.
NextOverlap ==
    \/ Tick
    \/ \E c \in Callers :
        \/ AddEnter(c) \/ AddCommand(c) \/ AddWhile(c)
        \/ AddTime(c) \/ AddCancel(c) \/ AddRaise(c)
        \/ RemoveEnter(c) \/ RemoveCommand(c) \/ RemoveWhile(c)
        \/ RemoveTime(c) \/ RemoveCancel(c) \/ RemoveRaise(c)

SpecOverlap == UpInit /\ [][NextOverlap]_vars

\* The node tables the administration calls are tried on: the controller
\* alone or with further nodes, in any insertion order.
AdminTables ==
    {tbl \in NodeTables : \A k \in 1..Len(tbl) : tbl[k].is_ready /\ tbl[k].type = "Other"}

\* A backend before its first start(), whose network holds no node yet, or
\* one that start() has brought up with any of these tables.
AdminInit ==
    \/ Init
    \/ \E tbl \in AdminTables : UpWith(tbl)

\* hard_reset() and the location and name calls from one caller.
NextAdmin ==
    \E c \in Solo :
        \/ \E force \in BOOLEAN : HardReset(c, force)
        \/ \E n \in NodeIds, v \in Strings : SetNodeLocation(c, n, v)
        \/ \E n \in NodeIds, v \in Strings : SetNodeName(c, n, v)
        \/ \E n \in NodeIds : GetNodeLocation(c, n)
        \/ \E n \in NodeIds : GetNodeName(c, n)

SpecAdmin == AdminInit /\ [][NextAdmin]_vars

\* add_node() and remove_node() of one caller on a started backend, against
\* the three node notifications, within the second that follows the
\* start-up: no wait reaches its deadline.
NextWake ==
    \/ AddedEvent
    \/ RemovedEvent
    \/ ValueEvent
    \/ \E c \in Solo :
        \/ AddEnter(c) \/ AddCommand(c) \/ AddWhile(c) \/ AddTime(c) \/ AddReturn(c)
        \/ RemoveEnter(c) \/ RemoveCommand(c) \/ RemoveWhile(c) \/ RemoveTime(c)
        \/ RemoveReturn(c)

SpecWake == UpInit /\ [][NextWake]_vars

\* sub.py: the runs of sub() and the callbacks on the published messages.
NextPubSub ==
    \/ \E m \in Msgs, d \in Contents : Publish(m, d)
    \/ SubSubscribe
    \/ \E m \in Msgs : SubDeliver(m) \/ SubAck(m) \/ SubParse(m)
    \/ SubCancel

SpecPubSub == Init /\ [][NextPubSub]_vars

\* The backend when an add_node() that started at second 0 has just failed
\* with Timeout: no NodeAdded has been delivered yet, the cancellation was
\* answered either way.
RetryInit ==
    /\ started = TRUE
    /\ connected = TRUE
    /\ now = controller_operation_timeout + 1
    /\ net = [state |-> "ready", cmdAt |-> 0, readyAt |-> 0, home |-> 0]
    /\ node_added = None
    /\ node_removed = None
    /\ timestamps = << >>
    /\ known = {}
    /\ ev = EvIdle("ok")
    /\ nodes = ControllerOnly
    /\ pc = [c \in Callers |-> "idle"]
    /\ temp = [c \in Callers |-> None]
    /\ t0 = [c \in Callers |-> 0]
    /\ i = [c \in Callers |-> 0]
    /\ tmo = [c \in Callers |-> FALSE]
    /\ trace = [c \in Callers |-> IF c \in Solo THEN <<"add_node", "cancel_command">>
                                   ELSE << >>]
    /\ result = [c \in Callers |-> IF c \in Solo THEN Raised("add_node", "Timeout")
                                    ELSE NoResult]
    /\ heard = [c \in Callers |-> FALSE]
    /\ cancelFailed \in [Callers -> BOOLEAN]
    /\ \A c \in Callers \ Solo : ~cancelFailed[c]
    /\ arg = [c \in Callers |-> None]
    /\ listing = [c \in Callers |-> << >>]
    /\ location = [n \in NodeIds |-> ""]
    /\ name = [n \in NodeIds |-> ""]
    /\ peer = PeerIdle
    /\ sub = SubIdle

\* add_node() called again by a caller whose last add_node() failed with
\* Timeout.
Retry(c) ==
    /\ result[c] = Raised("add_node", "Timeout")
    /\ AddEnter(c)

\* The retry of a timed-out add_node() against the NodeAdded notifications.
NextRetry ==
    \/ Tick
    \/ AddedEvent
    \/ \E c \in Solo :
        \/ Retry(c) \/ AddCommand(c) \/ AddWhile(c) \/ AddTime(c) \/ AddReturn(c)

SpecRetry == RetryInit /\ [][NextRetry]_vars

\* The command of add_node() / remove_node(), issued early enough for the
\* call's deadline to lie within the seconds the clock covers.
TimelyAddCommand(c) == now + controller_operation_timeout < MaxTime /\ AddCommand(c)
TimelyRemoveCommand(c) == now + controller_operation_timeout < MaxTime /\ RemoveCommand(c)

\* The steps of a caller in add_node() and remove_node().
WaitSteps(c) ==
    \/ AddEnter(c) \/ TimelyAddCommand(c) \/ AddWhile(c) \/ AddTime(c)
    \/ AddCancel(c) \/ AddRaise(c) \/ AddReturn(c)
    \/ RemoveEnter(c) \/ TimelyRemoveCommand(c) \/ RemoveWhile(c) \/ RemoveTime(c)
    \/ RemoveCancel(c) \/ RemoveRaise(c) \/ RemoveReturn(c)

NextLive ==
    \/ Tick
    \/ AddedEvent
    \/ RemovedEvent
    \/ \E c \in Solo : WaitSteps(c)

\* add_node() and remove_node() on a started backend; the clock advances and
\* the caller's thread, a busy loop, keeps being scheduled.
SpecLive ==
    /\ UpInit
    /\ [][NextLive]_vars
    /\ WF_vars(Tick)
    /\ \A c \in Solo : WF_vars(WaitSteps(c))

\* The notification handlers, once start() has brought the network up.
NextRegistry ==
    \/ Tick
    \/ NetEvent
    \/ AddedEvent
    \/ RemovedEvent
    \/ ValueEvent
    \/ \E c \in Solo : Start(c)

SpecRegistry == Init /\ [][NextRegistry]_vars

\* add_node() and remove_node() against the node notifications.
NextWait ==
    \/ Tick
    \/ NetEvent
    \/ AddedEvent
    \/ RemovedEvent
    \/ \E c \in Solo : Start(c) \/ AddNode(c) \/ RemoveNode(c)

SpecWait == Init /\ [][NextWait]_vars

\* add_node() against NodeAdded and the driver's hard reset.
NextReset ==
    \/ Tick
    \/ NetEvent
    \/ EvNetworkReset
    \/ AddedEvent
    \/ \E c \in Solo : Start(c) \/ AddNode(c)

SpecReset == Init /\ [][NextReset]_vars

\* A backend that start() has brought up, at second 0: the handlers are
\* connected and have left any timestamps; the driver holds any node table.
\* The cleared entries come from NodeAdded, the smallest of them delivered
\* last; the dated entries come from ValueUpdated, delivered after those.
QueryInit ==
    /\ started = TRUE
    /\ connected = TRUE
    /\ now = 0
    /\ net = [state |-> "ready", cmdAt |-> 0, readyAt |-> 0, home |-> 0]
    /\ timestamps \in UNION {[{TstampLabel(n) : n \in S} -> {None, 0}] : S \in SUBSET NodeIds}
    /\ node_added = (LET cleared == {n \in NodeIds : HasTimestamp(timestamps, n)
                                                      /\ GetNodeTimestamp(timestamps, n) = None}
                     IN  IF cleared = {} THEN None
                         ELSE CHOOSE n \in cleared : \A m \in cleared : n <= m)
    /\ node_removed = None
    /\ ev = EvIdle(IF \E k \in DOMAIN timestamps : timestamps[k] # None
                   THEN "AttributeError" ELSE "ok")
    /\ nodes \in NodeTables
    /\ pc = [c \in Callers |-> "idle"]
    /\ temp = [c \in Callers |-> None]
    /\ t0 = [c \in Callers |-> 0]
    /\ i = [c \in Callers |-> 0]
    /\ tmo = [c \in Callers |-> FALSE]
    /\ trace = [c \in Callers |-> IF c \in Solo THEN <<"start">> ELSE << >>]
    /\ result = [c \in Callers |-> IF c \in Solo THEN Status("start", TRUE, "OK", FALSE)
                                    ELSE NoResult]
    /\ heard = [c \in Callers |-> FALSE]
    /\ cancelFailed = [c \in Callers |-> FALSE]
    /\ known = {n \in NodeIds : HasTimestamp(timestamps, n) /\ GetNodeTimestamp(timestamps, n) = None}
    /\ arg = [c \in Callers |-> None]
    /\ listing = [c \in Callers |-> << >>]
    /\ location = [n \in NodeIds |-> ""]
    /\ name = [n \in NodeIds |-> ""]
    /\ peer = PeerIdle
    /\ sub = SubIdle

\* The queries, applied to every node table and every set of timestamps.
NextQuery ==
    \E c \in Solo :
        \/ GetNodesList(c)
        \/ \E o \in SensorOps, n \in NodeIds : GetSensor(c, o, n)
        \/ \E n \in NodeIds : GetDimmerLevel(c, n)
        \/ \E n \in NodeIds : SetDimmerLevel(c, n)

SpecQuery == QueryInit /\ [][NextQuery]_vars

TypeOK ==
    /\ started \in BOOLEAN
    /\ node_added \in NodeIds \cup {None}
    /\ node_removed \in NodeIds \cup {None}
    /\ DOMAIN timestamps \subseteq {TstampLabel(n) : n \in NodeIds}
    /\ \A k \in DOMAIN timestamps : timestamps[k] \in {None} \cup (0..MaxTime)
    /\ now \in 0..MaxTime

\* ================================================================ claims

\* A step in which caller c invokes operation o.
Invoked(c, o) == pc[c] = "idle" /\ result'[c] # result[c] /\ result'[c].op = o

\* How many times command x occurs in a call's trace.
Count(seq, x) == Cardinality({k \in 1..Len(seq) : seq[k] = x})

\* The timestamp entries recorded for node id n, whatever their label.
EntriesOf(ts, n) == {k \in DOMAIN ts : k[2] = n}

NetworkNotStarted == ~started /\ net.state = "stopped"

AlreadyStarted == Status("start", FALSE, "System already started. Skipping...", FALSE)

\* C1: add_node() invoked while the network has not been started fails at
\* once with 'Network is down' and issues no driver command.
C1_AddNodeNetworkDown ==
    [][\A c \in Callers :
        (NetworkNotStarted /\ Invoked(c, "add_node"))
            => /\ result'[c] = Raised("add_node", "Network is down")
               /\ pc'[c] = "idle"
               /\ trace'[c] = << >>]_vars

\* C2: remove_node() invoked while the network has not been started fails
\* at once with 'Network is down', before it captures a sentinel, and issues
\* no driver command.
C2_RemoveNodeNetworkDown ==
    [][\A c \in Callers :
        (NetworkNotStarted /\ Invoked(c, "remove_node"))
            => /\ result'[c] = Raised("remove_node", "Network is down")
               /\ pc'[c] = "idle"
               /\ temp'[c] = temp[c]
               /\ trace'[c] = << >>]_vars

\* C3: an add_node() whose command was accepted and whose wait finds the
\* deadline elapsed without having seen node_added change calls
\* cancel_command exactly once, and only then raises Timeout; nothing else
\* makes add_node() raise Timeout.
C3_TimeoutCancelsOnce ==
    [][\A c \in Callers :
        /\ (pc[c] = "a_time" /\ pc'[c] # "a_time" /\ now - t0[c] > controller_operation_timeout)
            => /\ pc'[c] = "a_cancel"
               /\ trace'[c] = <<"add_node">>
        /\ (pc[c] = "a_cancel" /\ pc'[c] # "a_cancel")
            => /\ pc'[c] = "a_raise"
               /\ result'[c] = Pending("add_node")
               /\ trace'[c] = <<"add_node", "cancel_command">>
        /\ (pc[c] = "a_raise" /\ pc'[c] # "a_raise")
            => /\ result'[c] = Raised("add_node", "Timeout")
               /\ Count(trace'[c], "cancel_command") = 1
        /\ (result'[c] = Raised("add_node", "Timeout") /\ result[c] # result'[c])
            => /\ pc[c] = "a_raise"
               /\ trace[c] = <<"add_node", "cancel_command">>]_vars

\* C3 witness: an add_node() that heard no notification in time has failed
\* with Timeout after one cancel_command.
C3_Witness ==
    \E c \in Callers :
        /\ pc[c] = "idle"
        /\ result[c] = Raised("add_node", "Timeout")
        /\ trace[c] = <<"add_node", "cancel_command">>
        /\ ~heard[c]

\* C4: a NodeAdded delivered after add_node() issued its command and before
\* its deadline elapsed (here: ahead of a check of the loop condition) makes
\* add_node() return normally, never fail with Timeout, whatever node the
\* notification carries.
C4_NotificationCompletesAdd ==
    \A c \in Callers :
        (pc[c] = "idle" /\ result[c] = Raised("add_node", "Timeout")) => ~heard[c]

\* C5: a start() that directly follows a successful start() returns
\* (False, 'already started'), issues no driver command and leaves the
\* started flag and the driver's network as they were.
C5_SecondStartRejected ==
    [][\A c \in Callers :
        (result[c].op = "start" /\ result[c].kind = "return" /\ result[c].ok
            /\ Invoked(c, "start"))
            => /\ result'[c] = AlreadyStarted
               /\ pc'[c] = "idle"
               /\ trace'[c] = << >>
               /\ started' = started
               /\ started
               /\ net' = net]_vars

\* C5 witness: the second start() has been rejected, the network still
\* marked started.
C5_Witness ==
    \E c \in Callers :
        pc[c] = "idle" /\ result[c] = AlreadyStarted /\ trace[c] = << >> /\ started

\* C6: a start() whose loop ran out without seeing the driver ready returns
\* (True, 'OK') and sets started; from then on a start() is rejected as
\* already started and add_node() / remove_node() are not rejected as
\* 'Network is down' but go on to their driver command.
C6_TimedOutStartSucceeds ==
    [][\A c \in Callers :
        /\ (pc[c] = "s_fin" /\ tmo[c] /\ pc'[c] # "s_fin")
            => /\ result'[c] = Status("start", TRUE, "OK", TRUE)
               /\ started'
        /\ (pc[c] = "idle" /\ result[c] = Status("start", TRUE, "OK", TRUE))
            => /\ started
               /\ Invoked(c, "start") => result'[c] = AlreadyStarted
               /\ Invoked(c, "add_node") => (result'[c] = Pending("add_node") /\ pc'[c] = "a_cmd")
               /\ Invoked(c, "remove_node") => (result'[c] = Pending("remove_node") /\ pc'[c] = "r_cmd")]_vars

\* C6 witness: the driver was not ready within network_ready_timeout, start()
\* has returned, and an add_node() is about to issue its command.
C6_Witness ==
    \E c \in Callers :
        /\ pc[c] = "a_cmd"
        /\ started
        /\ net.readyAt - net.cmdAt > network_ready_timeout

\* C7: when start() leaves its polling loop it has slept at most
\* network_ready_timeout times, and if the driver became ready k seconds
\* after the command with k < network_ready_timeout, it left through the
\* break after at most k sleeps, that is at most k+1 readiness checks.
C7_StartPollsBounded ==
    \A c \in Callers :
        pc[c] = "s_fin"
            => /\ i[c] <= network_ready_timeout
               /\ (net.readyAt - net.cmdAt < network_ready_timeout)
                    => (~tmo[c] /\ i[c] <= net.readyAt - net.cmdAt)

\* C7 witness: the driver became ready 1 second after the command and
\* start() left the loop at its second check.
C7_Witness ==
    \E c \in Callers :
        pc[c] = "s_fin" /\ ~tmo[c] /\ i[c] = 1 /\ net.readyAt - net.cmdAt = 1

\* C8: once the NodeRemoved(n) handler has run its deletion, and when it
\* returns, no timestamp entry for n is left: the timestamp query gives None
\* and has-history is false.
C8_RemovedNodeHasNoTimestamp ==
    [][(ev.pc \in {"nr_ts", "nr_log"} /\ ev'.pc # ev.pc)
        => /\ ~HasTimestamp(timestamps', ev.node)
           /\ GetNodeTimestamp(timestamps', ev.node) = None
           /\ EntriesOf(timestamps', ev.node) = {}]_vars

\* C8 witness: node n was added, then removed, and its entry is gone.
C8_Witness ==
    /\ ev.pc = "nr_log"
    /\ node_added = ev.node
    /\ node_removed = ev.node
    /\ ~HasTimestamp(timestamps, ev.node)

\* C9: a ValueUpdated for a node that has no entry (never added, or already
\* removed) changes nothing: no timestamp entry is created.
C9_ValueUpdateUnknownIsNoOp ==
    [][(ev.pc = "idle" /\ ev'.pc = "vu_log" /\ ~HasTimestamp(timestamps, ev'.node))
        => timestamps' = timestamps]_vars

\* C10: a NodeAdded(n) delivered when an entry for n already exists
\* overwrites it: afterwards there is exactly one entry for n and the number
\* of entries is unchanged.
C10_DuplicateAddKeepsOneEntry ==
    [][(ev.pc = "na_ts" /\ ev'.pc = "na_log" /\ EntriesOf(timestamps, ev.node) # {})
        => /\ Cardinality(EntriesOf(timestamps', ev.node)) = 1
           /\ Cardinality(DOMAIN timestamps') = Cardinality(DOMAIN timestamps)
           /\ GetNodeTimestamp(timestamps', ev.node) = None]_vars

\* C10 witness: NodeAdded(n) is being handled a second time in succession:
\* n is the most recently added node and already has its cleared entry.
C10_Witness ==
    /\ ev.pc = "na_ts"
    /\ node_added = ev.node
    /\ HasTimestamp(timestamps, ev.node)
    /\ GetNodeTimestamp(timestamps, ev.node) = None

\* The ids held by a node table, and what the driver says of node n.
IdsOf(tbl) == {tbl[k].node_id : k \in 1..Len(tbl)}
Exists(n) == n \in IdsOf(nodes)
Ready(n) == \E k \in 1..Len(nodes) : nodes[k].node_id = n /\ nodes[k].is_ready
Sensor(n) == \E k \in 1..Len(nodes) : nodes[k].node_id = n /\ nodes[k].type = "Sensor"
Dimmer(n) == \E k \in 1..Len(nodes) : nodes[k].node_id = n /\ nodes[k].type = "Dimmer"
HasHistory(n) == HasTimestamp(timestamps, n)
Answered(c, o) == pc[c] = "done" /\ result[c].op = o

\* C11: whatever order the nodes arrived in, get_nodes_list() returns one
\* entry per node of the network, in strictly ascending order of node id.
C11_NodesListAscending ==
    \A c \in Callers :
        Answered(c, "get_nodes_list")
            => /\ Len(listing[c]) = Len(nodes)
               /\ {listing[c][k][1] : k \in 1..Len(listing[c])} = IdsOf(nodes)
               /\ \A a, b \in 1..Len(listing[c]) :
                    a < b => listing[c][a][1] < listing[c][b][1]

\* C11 witness: node 2 arrived before node 1 and the list names 1 before 2.
C11_Witness ==
    \E c \in Callers :
        /\ Answered(c, "get_nodes_list")
        /\ Len(nodes) >= 2
        /\ nodes[1].node_id = 2
        /\ nodes[2].node_id = 1
        /\ listing[c][1][1] = 1
        /\ listing[c][2][1] = 2

\* C14: _lookup_sensor_node, _lookup_dimmer_node and get_dimmer_level check
\* existence, then readiness, then classification: an unknown id gives 'No
\* such node'; a known node that is neither ready nor has a timestamp gives
\* 'Not ready' whatever its type; only a known, queryable node of the wrong
\* type gives 'Not a sensor' / 'Not a dimmer'.
C14_LookupCheckOrder ==
    /\ \A n \in NodeIds :
        LET sensorErr == LookupSensorNode(nodes, timestamps, n)
            dimmerErr == LookupDimmerNode(nodes, timestamps, n)
            levelErr == GetDimmerLevelCheck(nodes, timestamps, n)
            queryable == Ready(n) \/ HasHistory(n)
        IN  /\ ~Exists(n)
                => sensorErr = "No such node" /\ dimmerErr = "No such node"
                   /\ levelErr = "No such node"
            /\ (Exists(n) /\ ~queryable)
                => sensorErr = "Not ready" /\ dimmerErr = "Not ready" /\ levelErr = "Not ready"
            /\ (Exists(n) /\ queryable)
                => /\ sensorErr = (IF Sensor(n) THEN "" ELSE "Not a sensor")
                   /\ dimmerErr = (IF Dimmer(n) THEN "" ELSE "Not a dimmer")
                   /\ levelErr = (IF Dimmer(n) THEN "" ELSE "Not a dimmer")
    /\ \A c \in Callers :
        LET n == arg[c]
            queryable == Ready(n) \/ HasHistory(n)
        IN  /\ (\E o \in SensorOps : Answered(c, o))
                => /\ result[c].msg = "No such node" <=> ~Exists(n)
                   /\ result[c].msg = "Not ready" <=> (Exists(n) /\ ~queryable)
                   /\ result[c].msg = "Not a sensor" <=> (Exists(n) /\ queryable /\ ~Sensor(n))
            /\ Answered(c, "get_dimmer_level")
                => /\ result[c].msg = "No such node" <=> ~Exists(n)
                   /\ result[c].msg = "Not ready" <=> (Exists(n) /\ ~queryable)
                   /\ result[c].msg = "Not a dimmer" <=> (Exists(n) /\ queryable /\ ~Dimmer(n))

\* C14 witness: a node that is neither ready nor has a timestamp, and is not
\* a sensor either, was queried as a sensor and the answer is 'Not ready'.
C14_Witness ==
    \E c \in Callers :
        /\ Answered(c, "get_sensor_temperature")
        /\ Exists(arg[c])
        /\ ~Ready(arg[c])
        /\ ~HasHistory(arg[c])
        /\ ~Sensor(arg[c])
        /\ result[c] = Raised("get_sensor_temperature", "Not ready")

\* C15: every sensor / dimmer operation, set_dimmer_level included, rejects
\* an existing node of the right type as 'Not ready' exactly when the node
\* is neither ready nor has a timestamp.
C15_QueryableIsReadyOrHistory ==
    \A c \in Callers :
        LET n == arg[c]
        IN  /\ ((\E o \in SensorOps : Answered(c, o)) /\ Exists(n) /\ Sensor(n))
                => (result[c].msg = "Not ready" <=> ~(Ready(n) \/ HasHistory(n)))
            /\ ((Answered(c, "get_dimmer_level") \/ Answered(c, "set_dimmer_level"))
                    /\ Exists(n) /\ Dimmer(n))
                => (result[c].msg = "Not ready" <=> ~(Ready(n) \/ HasHistory(n)))

\* C12: a node has history only if a ValueUpdated for it was handled since
\* its last NodeAdded: a node whose NodeAdded has just been handled, and
\* that has delivered no reading, has no history.
C12_HistoryNeedsReading ==
    \A n \in known :
        HasTimestamp(timestamps, n) => GetNodeTimestamp(timestamps, n) # None

\* C13 as stated: from the first NodeAdded(n) to the removal of n, a
\* timestamp that holds a time t never becomes unset or earlier, whatever
\* notification is handled, a repeated NodeAdded(n) included.
C13_TimestampNeverGoesBack ==
    [][\A n \in NodeIds :
        (n \in known /\ n \in known' /\ GetNodeTimestamp(timestamps, n) # None)
            => /\ GetNodeTimestamp(timestamps', n) # None
               /\ GetNodeTimestamp(timestamps', n) >= GetNodeTimestamp(timestamps, n)]_vars

\* C13 amended: from the first NodeAdded(n) to the removal of n, a timestamp
\* that holds a time t never becomes unset or earlier, except that the
\* handler of a repeated NodeAdded(n) clears it.
C13_TimestampMonotoneBetweenAdds ==
    [][\A n \in NodeIds :
        (n \in known /\ n \in known' /\ GetNodeTimestamp(timestamps, n) # None
            /\ ~(ev.pc = "na_ts" /\ ev.node = n))
            => /\ GetNodeTimestamp(timestamps', n) # None
               /\ GetNodeTimestamp(timestamps', n) >= GetNodeTimestamp(timestamps, n)]_vars

\* C13 witness: a known node's timestamp has just been set again, later
\* than second 0.
C13_Witness ==
    /\ ev.pc = "vu_log"
    /\ ev.node \in known
    /\ now > 0
    /\ GetNodeTimestamp(timestamps, ev.node) = now

\* C16: when the driver rejects the inclusion (exclusion) command, add_node
\* (remove_node) ends at once with an error: it does not enter the wait, it
\* does not call cancel_command, and it does not return a normal result.
C16_RejectedCommandIsError ==
    [][\A c \in Callers :
        /\ (pc[c] = "a_cmd" /\ pc'[c] \notin {"a_cmd", "a_while"})
            => /\ pc'[c] = "idle"
               /\ Count(trace'[c], "cancel_command") = 0
               /\ result'[c].op = "add_node"
               /\ result'[c].kind = "raise"
        /\ (pc[c] = "r_cmd" /\ pc'[c] \notin {"r_cmd", "r_while"})
            => /\ pc'[c] = "idle"
               /\ Count(trace'[c], "cancel_command") = 0
               /\ result'[c].op = "remove_node"
               /\ result'[c].kind = "raise"]_vars

\* C17: when the wait of add_node (remove_node) has reached its deadline and
\* cancel_command answers False, the operation goes on to raise Timeout: the
\* failed cancellation neither ends the call nor replaces its error.
C17_CancelFailureStillTimeout ==
    [][\A c \in Callers :
        /\ (pc[c] = "a_cancel" /\ pc'[c] # "a_cancel" /\ cancelFailed'[c])
            => (pc'[c] = "a_raise" /\ result'[c] = Pending("add_node"))
        /\ (pc[c] = "a_raise" /\ pc'[c] # "a_raise" /\ cancelFailed[c])
            => (pc'[c] = "idle" /\ result'[c] = Raised("add_node", "Timeout"))
        /\ (pc[c] = "r_cancel" /\ pc'[c] # "r_cancel" /\ cancelFailed'[c])
            => (pc'[c] = "r_raise" /\ result'[c] = Pending("remove_node"))
        /\ (pc[c] = "r_raise" /\ pc'[c] # "r_raise" /\ cancelFailed[c])
            => (pc'[c] = "idle" /\ result'[c] = Raised("remove_node", "Timeout"))]_vars

\* C17 witness: an add_node() whose cancel_command answered False has
\* failed with Timeout.
C17_Witness ==
    \E c \in Callers :
        /\ pc[c] = "idle"
        /\ cancelFailed[c]
        /\ result[c] = Raised("add_node", "Timeout")
        /\ trace[c] = <<"add_node", "cancel_command">>

\* C18: add_node (remove_node) takes its sentinel when it is entered, before
\* any driver command of the call, and never takes it again: neither the
\* command nor a notification delivered after it changes the sentinel.
C18_SentinelBeforeCommand ==
    [][\A c \in Callers :
        /\ (pc[c] = "idle" /\ pc'[c] = "a_cmd")
            => (temp'[c] = node_added /\ trace'[c] = << >>)
        /\ (pc[c] = "idle" /\ pc'[c] = "r_cmd")
            => (temp'[c] = node_removed /\ trace'[c] = << >>)
        /\ (pc[c] \in {"a_cmd", "a_while", "a_time", "r_cmd", "r_while", "r_time"}
                /\ pc'[c] # "idle")
            => temp'[c] = temp[c]]_vars

\* C18 witness: a NodeAdded was delivered after the command, during the
\* wait, and the sentinel still holds the value from before the command.
C18_Witness ==
    \E c \in Callers :
        /\ pc[c] = "a_while"
        /\ heard[c]
        /\ node_added # temp[c]
        /\ trace[c] = <<"add_node">>

\* C19: an add_node() that finds node_added different from its sentinel
\* leaves the wait whatever node the notification carried, and what it
\* returns is node_added as it is at the moment of the return: of two
\* notifications, the later one.
C19_MostRecentAddWins ==
    [][\A c \in Callers :
        /\ (pc[c] = "a_while" /\ pc'[c] # "a_while" /\ node_added # temp[c])
            => pc'[c] = "a_ret"
        /\ (pc[c] = "a_ret" /\ pc'[c] # "a_ret")
            => (pc'[c] = "idle" /\ result'[c] = Returned("add_node", node_added))]_vars

\* C19 witness: the wait was left on a first NodeAdded, and before the
\* return a second NodeAdded has set node_added again (here back to the
\* sentinel's value): the return hands out that second node.
C19_Witness ==
    \E c \in Callers :
        /\ pc[c] = "a_ret"
        /\ node_added = temp[c]
        /\ temp[c] \in NodeIds

\* C20: the handler of NetworkReset leaves node_added, node_removed and the
\* timestamps as they are and moves no caller: a pending add_node() keeps
\* its sentinel, its deadline and its place in the wait.
C20_ResetLeavesWaitsAlone ==
    [][net'.home # net.home
        => /\ UNCHANGED <<node_added, node_removed, timestamps>>
           /\ UNCHANGED <<pc, temp, t0, result, trace>>]_vars

\* C20 witness: the network was reset while an add_node() waits.
C20_Witness ==
    \E c \in Callers :
        /\ pc[c] \in {"a_while", "a_time"}
        /\ net.home > 0
        /\ node_added = temp[c]

C24_RemovalDeletesAtomically ==
    ev.pc = "nr_ts" => ~HasTimestamp(timestamps, ev.node)

\* C29: the ValueUpdated handler always returns normally: no handler run
\* ends in an error.
C29_ValueUpdateNeverFails ==
    ev.err = "ok"

\* C28: a stop() whose driver stop fails returns (False, reason) and leaves
\* `started` as it was; a stop() whose driver stop succeeds returns (True, 'OK')
\* with `started` cleared, the start() that follows it is accepted, and an
\* accepted start() issues the driver's start command, which sets the stopped
\* network starting again.
C28_StopThenStart ==
    [][\A c \in Solo :
        /\ (pc[c] = "idle" /\ pc'[c] = "idle" /\ result'[c].op = "stop")
               => /\ started' = started
                  /\ \/ result'[c].kind = "return" /\ ~result'[c].ok
                     \/ result'[c] = result[c]
        /\ (pc[c] = "st_set" /\ pc'[c] = "idle")
               => /\ result'[c] = Status("stop", TRUE, "OK", FALSE)
                  /\ ~started'
        /\ (result[c] = Status("stop", TRUE, "OK", FALSE) /\ result'[c].op = "start")
               => /\ result'[c] = Pending("start")
                  /\ pc'[c] = "s_cmd"
        /\ (pc[c] = "s_cmd" /\ pc'[c] # "s_cmd")
               => /\ trace'[c] = <<"start">>
                  /\ net'.state = "starting"
                  /\ net'.cmdAt = now
      ]_vars

\* A start() issued its command to a network that an earlier start() had
\* brought to readiness and a stop() has stopped since.
C28_Witness ==
    \E c \in Solo :
        /\ pc[c] = "s_loop"
        /\ trace[c] = <<"start">>
        /\ connected
        /\ net.state = "starting"
        /\ ~started

\* The second instance's own network is running: its start() has issued the
\* driver's start command and no stop() of it has stopped the network since.
PeerRunning == peer.net.state # "stopped"

\* C22: the started status belongs to each instance.  A start() of the second
\* instance is refused as already started only when that instance's own
\* network has been started, whatever the first instance did; and a stop()
\* of the first instance that completes while the second instance is started
\* leaves the started status the second instance reads set.
C22_StartedPerInstance ==
    [][/\ (peer.pc = "idle" /\ peer'.result = AlreadyStarted /\ peer'.result # peer.result)
              => PeerRunning
       /\ \A c \in Solo :
              (pc[c] = "st_set" /\ pc'[c] = "idle" /\ PeerRunning /\ started
                  /\ peer.pc = "idle" /\ peer.result = Status("start", TRUE, "OK", FALSE))
                  => started'
      ]_vars

\* The positions of the wait loop of add_node() and of remove_node().
AddWait == {"a_while", "a_time"}
RemoveWait == {"r_while", "r_time"}

\* C23: at most one add_node() wait and at most one remove_node() wait is
\* outstanding: two callers are never inside the add wait loop at the same
\* time, nor inside the remove wait loop at the same time.
C23_OneWaitPerKind ==
    \A c, d \in Callers :
        c # d => /\ ~(pc[c] \in AddWait /\ pc[d] \in AddWait)
                 /\ ~(pc[c] \in RemoveWait /\ pc[d] \in RemoveWait)

\* The callers whose running or last call issued the driver's start command,
\* and those whose last call was a start() that returned success.
StartIssuers == {c \in Callers : Count(trace[c], "start") > 0}
StartWinners == {c \in Callers : result[c].op = "start" /\ result[c].kind = "return"
                                  /\ result[c].ok}

\* C30: overlapping start() calls cannot both start the network: with no
\* stop() in between, the driver's start command is issued by at most one
\* call and at most one call returns success.
C30_StartOnce ==
    /\ Cardinality(StartIssuers) <= 1
    /\ Cardinality(StartWinners) <= 1

\* Nodes other than the controller are included in the network.
OthersIncluded == \E k \in 1..Len(nodes) : nodes[k].node_id # CONTROLLER_NODE_ID

\* C25: hard_reset(force) fails, with no hard-reset command issued, exactly
\* when nodes other than the controller are included and force is false; in
\* every other case it issues exactly one hard-reset command and returns
\* (True, 'OK').
C25_HardResetGuard ==
    [][\A c \in Solo :
        Invoked(c, "hard_reset")
            => IF OthersIncluded /\ ~result'[c].force
               THEN /\ result'[c].kind = "raise"
                    /\ Count(trace'[c], "hard_reset") = 0
               ELSE /\ result'[c].kind = "return"
                    /\ result'[c].ok /\ result'[c].msg = "OK"
                    /\ Count(trace'[c], "hard_reset") = 1
      ]_vars

\* The node with id n is in the driver's table.
InNetwork(n) == LookupNode(nodes, n) # 0

\* C26: set_node_location(n, v) on a node of the network returns the
\* location the node had and stores v, leaving every other node's location
\* and every name as they were; get_node_location(n) returns the stored
\* location and changes nothing, so the call after the set returns v.
C26_SetLocationReturnsPrevious ==
    [][\A c \in Solo :
        /\ (Invoked(c, "set_node_location") /\ InNetwork(arg'[c]))
               => /\ result'[c].kind = "return"
                  /\ result'[c].value = location[arg'[c]]
                  /\ location'[arg'[c]] = result'[c].given
                  /\ \A m \in NodeIds \ {arg'[c]} : location'[m] = location[m]
        /\ (Invoked(c, "get_node_location") /\ InNetwork(arg'[c]))
               => /\ result'[c].kind = "return"
                  /\ result'[c].value = location[arg'[c]]
                  /\ location' = location
      ]_vars

\* A get_node_location(n) has returned the location a set_node_location
\* stored for n, another node of the network keeping a location of its own.
C26_Witness ==
    \E c \in Solo :
        /\ result[c].op = "get_node_location"
        /\ result[c].kind = "return"
        /\ result[c].value = "kitchen"
        /\ \E m \in NodeIds \ {arg[c]} : InNetwork(m) /\ location[m] = "lamp"

\* C27: set_node_location and set_node_name with an identity that is not in
\* the network fail with the not-found error and change no node's location
\* or name.
C27_SetOnMissingNode ==
    [][/\ \A c \in Solo :
        \A o \in {"set_node_location", "set_node_name"} :
            (pc[c] = "idle" /\ result'[c] = Raised(o, "No node with this ID"))
                => /\ location' = location /\ name' = name
                   /\ nodes' = nodes
       /\ \A c \in Solo :
        \A o \in {"set_node_location", "set_node_name"} :
            (Invoked(c, o) /\ ~InNetwork(arg'[c]))
                => result'[c] = Raised(o, "No node with this ID")
      ]_vars

\* A set_node_name on an identity outside the network failed as not found,
\* on a network whose nodes carry a location and a name.
C27_Witness ==
    \E c \in Solo :
        /\ result[c] = Raised("set_node_name", "No node with this ID")
        /\ ~InNetwork(arg[c])
        /\ \E m \in NodeIds : InNetwork(m) /\ location[m] # "" /\ name[m] # ""

\* A step of the NodeAdded, NodeRemoved or ValueUpdated handler: the event
\* thread moves, into or inside that handler.
AddedStep == ev' # ev /\ (ev'.pc = "na_ts" \/ ev.pc \in {"na_ts", "na_log"})
RemovedStep == ev' # ev /\ (ev'.pc = "nr_ts" \/ ev.pc \in {"nr_ts", "nr_log"})
ValueStep == ev' # ev /\ (ev'.pc = "vu_log" \/ ev.pc = "vu_log")

\* C34: the NodeRemoved handler leaves node_added as it is, the NodeAdded
\* handler leaves node_removed as it is, the ValueUpdated handler changes
\* neither; so no step of a handler of another kind turns the loop
\* condition of a pending add_node() (remove_node()) false, and a wait is
\* left towards its return only when its own most-recent node differs from
\* its sentinel.
C34_WokenByOwnKind ==
    [][/\ (RemovedStep \/ ValueStep)
              => /\ node_added' = node_added
                 /\ \A c \in Solo : pc[c] \in AddWait
                        => (node_added' = temp'[c]) = (node_added = temp[c])
       /\ (AddedStep \/ ValueStep)
              => /\ node_removed' = node_removed
                 /\ \A c \in Solo : pc[c] \in RemoveWait
                        => (node_removed' = temp'[c]) = (node_removed = temp[c])
       /\ \A c \in Solo :
              /\ (pc[c] \in AddWait /\ pc'[c] = "a_ret") => node_added # temp[c]
              /\ (pc[c] \in RemoveWait /\ pc'[c] = "r_ret") => node_removed # temp[c]
      ]_vars

\* An add_node() is still waiting on its sentinel while the NodeRemoved
\* handler runs and a ValueUpdated has left a timestamp.
C34_Witness ==
    \E c \in Solo :
        /\ pc[c] \in AddWait
        /\ node_added = temp[c]
        /\ ev.pc = "nr_log"
        /\ node_removed # None
        /\ \E k \in DOMAIN timestamps : timestamps[k] # None

\* The logging statement of a handler is the one to run next.
AtLog == ev.pc \in {"na_log", "nr_log", "vu_log"}

\* C35: in the NodeAdded, NodeRemoved and ValueUpdated handlers every state
\* change precedes the logging statement, which is the last one: when the
\* logging statement is reached the most-recent node and the timestamp entry
\* already have their final values, and the logging step changes neither
\* and ends the handler.
C35_MutationsBeforeLogging ==
    [][/\ ev.pc = "na_log"
              => /\ node_added = ev.node
                 /\ HasTimestamp(timestamps, ev.node)
                 /\ GetNodeTimestamp(timestamps, ev.node) = None
       /\ ev.pc = "nr_log"
              => /\ node_removed = ev.node
                 /\ ~HasTimestamp(timestamps, ev.node)
       /\ ev.pc = "vu_log"
              => /\ HasTimestamp(timestamps, ev.node)
                 /\ GetNodeTimestamp(timestamps, ev.node) # None
       /\ (AtLog /\ ev' # ev)
              => /\ ev'.pc = "idle"
                 /\ node_added' = node_added
                 /\ node_removed' = node_removed
                 /\ timestamps' = timestamps
      ]_vars

\* The ValueUpdated handler has written its timestamp a second ago and its
\* logging statement has still to run.
C35_Witness ==
    /\ ev.pc = "vu_log"
    /\ GetNodeTimestamp(timestamps, ev.node) # None
    /\ GetNodeTimestamp(timestamps, ev.node) < now

\* C36: when the NodeAdded(n) handler has set the entry of n, the timestamp
\* query for n gives None, whatever the entry held before; and a query that
\* gives None keeps giving None until the ValueUpdated(n) handler writes.
C36_AddClearsTimestamp ==
    [][/\ (ev.pc = "na_ts" /\ ev'.pc # "na_ts")
              => /\ HasTimestamp(timestamps', ev.node)
                 /\ GetNodeTimestamp(timestamps', ev.node) = None
       /\ \A n \in NodeIds :
              (GetNodeTimestamp(timestamps, n) = None
                  /\ ~(ev.pc = "idle" /\ ev'.pc = "vu_log" /\ ev'.node = n))
                  => GetNodeTimestamp(timestamps', n) = None
      ]_vars

\* NodeAdded(n) is being handled for a node that carries a time: the
\* statement that clears the entry runs next.
C36_Witness ==
    /\ ev.pc = "na_ts"
    /\ node_added = ev.node
    /\ HasTimestamp(timestamps, ev.node)
    /\ GetNodeTimestamp(timestamps, ev.node) # None

\* C37: a NodeRemoved(n) for a node that has no timestamp entry is handled
\* to its end without an error, and leaves every timestamp entry as it was.
C37_DuplicateRemovalTolerated ==
    [][/\ (ev.pc = "nr_ts" /\ ev'.pc # "nr_ts" /\ ~HasTimestamp(timestamps, ev.node))
              => /\ timestamps' = timestamps
                 /\ ev' = [pc |-> "nr_log", node |-> ev.node, err |-> "ok"]
       /\ (ev.pc = "nr_log" /\ ev' # ev) => ev' = EvIdle("ok")
       /\ (ev.pc = "nr_ts" /\ ev'.pc # "nr_ts")
              => \A m \in NodeIds \ {ev.node} :
                    /\ HasTimestamp(timestamps', m) = HasTimestamp(timestamps, m)
                    /\ GetNodeTimestamp(timestamps', m) = GetNodeTimestamp(timestamps, m)
      ]_vars

\* NodeRemoved(n) is being handled a second time in succession: n is the most
\* recently removed node, has no entry, and another node has one.
C37_Witness ==
    /\ ev.pc = "nr_ts"
    /\ node_removed = ev.node
    /\ ev.node \notin known
    /\ ~HasTimestamp(timestamps, ev.node)
    /\ \E m \in NodeIds \ {ev.node} : HasTimestamp(timestamps, m)

\* The entry of node id n in a returned list, or "" when there is none.
EntryOf(l, n) ==
    IF \E j \in 1..Len(l) : l[j][1] = n
    THEN l[CHOOSE j \in 1..Len(l) : l[j][1] = n][2]
    ELSE ""

ForwardFailed(r) ==
    \/ r.out.kind = "raise"
    \/ r.out.payload = "Light, Request never reached. Is the ipv4 set correctly ?"

\* C39: the callback acknowledges a message before it parses and forwards
\* it: parserf runs on acknowledged messages only, so a message whose
\* forwarding failed or raised is acknowledged; an acknowledged message
\* stays acknowledged and is not delivered again, and no message is parsed
\* more than once.
C39_AckBeforeParse ==
    [][\A m \in Msgs :
        /\ sub.msg[m].cb = "parse" => sub.msg[m].state = "acked"
        /\ sub.msg[m].parses > 0 => sub.msg[m].state = "acked"
        /\ ForwardFailed(sub.msg[m]) => sub.msg[m].state = "acked"
        /\ sub.msg[m].state = "acked"
               => /\ sub'.msg[m].state = "acked"
                  /\ sub'.msg[m].deliveries = sub.msg[m].deliveries
        /\ sub'.msg[m].parses <= 1
      ]_vars

\* The forwarding of a message raised, in a later run of sub() than the one
\* that acknowledged it; the message is acknowledged and was delivered
\* once, while another message was released and delivered a second time.
C39_Witness ==
    \E m \in Msgs :
        /\ sub.msg[m].out.kind = "raise"
        /\ sub.msg[m].state = "acked"
        /\ sub.msg[m].deliveries = 1
        /\ sub.runs > 1
        /\ \E k \in Msgs \ {m} : sub.msg[k].deliveries > 1

\* C31: once its command is accepted, an add_node() or remove_node() call
\* does not wait forever: with the clock advancing, the wait is left and the
\* call completes, by a return or by Timeout.
C31_WaitTerminates ==
    \A c \in Solo : (pc[c] \in AddWait \cup RemoveWait) ~> (pc[c] = "idle")

\* A wait that no notification ended has been left through its deadline.
C31_Witness ==
    \E c \in Solo :
        /\ pc[c] = "idle"
        /\ result[c] = Raised("remove_node", "Timeout")
        /\ node_removed = None

\* C32: the add_node() that follows an add_node() failed with Timeout takes
\* a fresh sentinel, issues the inclusion command anew with a deadline
\* counted from that command, leaves its wait as soon as it finds
\* node_added different from the fresh sentinel, and then returns the node.
C32_RetryAfterTimeout ==
    [][\A c \in Solo :
        /\ (pc[c] = "idle" /\ result[c] = Raised("add_node", "Timeout")
                /\ result'[c] # result[c])
               => /\ result'[c] = Pending("add_node")
                  /\ pc'[c] = "a_cmd"
                  /\ temp'[c] = node_added
                  /\ trace'[c] = << >>
        /\ (pc[c] = "a_cmd" /\ pc'[c] # "a_cmd")
               => /\ trace'[c] = <<"add_node">>
                  /\ pc'[c] = "a_while" => t0'[c] = now
        /\ (pc[c] = "a_while" /\ pc'[c] # "a_while" /\ node_added # temp[c])
               => pc'[c] = "a_ret"
        /\ (pc[c] = "a_ret" /\ pc'[c] # "a_ret")
               => /\ result'[c].kind = "return" /\ result'[c].ok
                  /\ result'[c].node = node_added
                  /\ result'[c].node # None
      ]_vars

\* The retry has returned the node of a NodeAdded delivered during its wait.
C32_Witness ==
    \E c \in Solo :
        /\ pc[c] = "idle"
        /\ result[c].op = "add_node" /\ result[c].kind = "return" /\ result[c].ok
        /\ result[c].node = node_added
        /\ trace[c] = <<"add_node">>
        /\ heard[c]

\* C33: a NodeAdded handled before add_node() takes its sentinel becomes the
\* sentinel and does not complete the call: as long as node_added still
\* equals the sentinel the call neither leaves its wait towards the return
\* nor returns a node.
C33_StaleAddIgnored ==
    [][\A c \in Solo :
        /\ (pc[c] = "idle" /\ pc'[c] = "a_cmd") => temp'[c] = node_added
        /\ (pc[c] \in {"a_cmd", "a_while", "a_time"} /\ node_added = temp[c]
                /\ node_added' = node_added)
               => /\ pc'[c] # "a_ret"
                  /\ ~(result'[c].kind = "return" /\ result'[c].ok)
      ]_vars

\* Between the timed-out call and the retry a NodeAdded was handled to its
\* end; the retry holds that node as its sentinel and is still waiting a
\* second after its command.
C33_Witness ==
    \E c \in Solo :
        /\ pc[c] = "a_time"
        /\ temp[c] \in NodeIds
        /\ node_added = temp[c]
        /\ ev.pc = "idle"
        /\ now > t0[c]

====
